---- MODULE Spec2Model ----
(***************************************************************************)
(* A model of darklakefi/dex-math: the fee calculator, the constant-product *)
(* swap engine and the quote orchestrator (src/src/utils.rs,               *)
(* src/src/swap.rs).                                                       *)
(*                                                                         *)
(* The program computes on u64 and u128 values.  TLC's integers are 32-bit,*)
(* so an unsigned integer of the program is a sequence of decimal limbs    *)
(* (base 10^4, least significant limb first, no leading zero limb; zero is *)
(* the empty sequence).  The arithmetic below is exact on naturals of any  *)
(* size; the program's widths are kept by the checked_* operators, which   *)
(* compare against the true u64::MAX and u128::MAX.                        *)
(***************************************************************************)
EXTENDS Integers, Sequences, FiniteSets, TLC

\* ------------------------------------------------------------------------
\* Unsigned integers of any size
\* ------------------------------------------------------------------------

BASE == 10 * 1000

\* Drop the zero limbs at the most significant end.
RECURSIVE Norm(_)
Norm(a) ==
    IF a = <<>> THEN <<>>
    ELSE IF a[Len(a)] = 0 THEN Norm(SubSeq(a, 1, Len(a) - 1))
    ELSE a

\* A TLC integer 0 <= n < 2^31 as a limb sequence.
RECURSIVE Nat2Big(_)
Nat2Big(n) ==
    IF n = 0 THEN <<>> ELSE <<n % BASE>> \o Nat2Big(n \div BASE)

RECURSIVE RevSeq(_)
RevSeq(s) ==
    IF s = <<>> THEN <<>> ELSE Append(RevSeq(Tail(s)), Head(s))

\* A decimal literal written in groups of four digits, most significant
\* group first: Lit(<<7, 0, 0>>) is 7_0000_0000.
Lit(groups) == Norm(RevSeq(groups))

\* A limb sequence that fits a TLC integer, as that integer.
RECURSIVE Big2Nat(_)
Big2Nat(a) ==
    IF a = <<>> THEN 0 ELSE Head(a) + BASE * Big2Nat(Tail(a))

Zero == <<>>
One == <<1>>

\* -1, 0, 1 as a < b, a = b, a > b.
RECURSIVE CmpFrom(_, _, _)
CmpFrom(a, b, i) ==
    IF i = 0 THEN 0
    ELSE IF a[i] < b[i] THEN -1
    ELSE IF a[i] > b[i] THEN 1
    ELSE CmpFrom(a, b, i - 1)

BCmp(a, b) ==
    IF Len(a) < Len(b) THEN -1
    ELSE IF Len(a) > Len(b) THEN 1
    ELSE CmpFrom(a, b, Len(a))

BLt(a, b) == BCmp(a, b) < 0
BLe(a, b) == BCmp(a, b) <= 0
BGt(a, b) == BCmp(a, b) > 0
BGe(a, b) == BCmp(a, b) >= 0

RECURSIVE AddCarry(_, _, _)
AddCarry(a, b, c) ==
    IF a = <<>> /\ b = <<>> THEN (IF c = 0 THEN <<>> ELSE <<c>>)
    ELSE LET da == IF a = <<>> THEN 0 ELSE Head(a)
             db == IF b = <<>> THEN 0 ELSE Head(b)
             s == da + db + c
         IN <<s % BASE>> \o AddCarry(IF a = <<>> THEN a ELSE Tail(a),
                                      IF b = <<>> THEN b ELSE Tail(b),
                                      s \div BASE)

BAdd(a, b) == AddCarry(a, b, 0)

\* a - b for a >= b.
RECURSIVE SubBorrow(_, _, _)
SubBorrow(a, b, c) ==
    IF a = <<>> THEN <<>>
    ELSE LET db == IF b = <<>> THEN 0 ELSE Head(b)
             d == Head(a) - db - c
         IN <<IF d < 0 THEN d + BASE ELSE d>>
            \o SubBorrow(Tail(a), IF b = <<>> THEN b ELSE Tail(b),
                         IF d < 0 THEN 1 ELSE 0)

BSub(a, b) == Norm(SubBorrow(a, b, 0))

\* a * d + c for a limb d and a carry c.
RECURSIVE MulLimb(_, _, _)
MulLimb(a, d, c) ==
    IF a = <<>> THEN (IF c = 0 THEN <<>> ELSE <<c>>)
    ELSE LET p == Head(a) * d + c
         IN <<p % BASE>> \o MulLimb(Tail(a), d, p \div BASE)

BMulSmall(a, d) == IF d = 0 THEN <<>> ELSE MulLimb(a, d, 0)

ShiftLimb(a) == IF a = <<>> THEN <<>> ELSE <<0>> \o a

\* The schoolbook product, one limb of b at a time from the most significant:
\* st.j limbs of b are still to come, st.acc is a times the limbs done.
RECURSIVE MulLoop(_, _, _)
MulLoop(a, b, st) ==
    IF st.j = 0 THEN st.acc
    ELSE MulLoop(a, b, [j |-> st.j - 1, acc |-> BAdd(BMulSmall(a, b[st.j]), ShiftLimb(st.acc))])

BMul(a, b) ==
    IF a = <<>> \/ b = <<>> THEN <<>>
    ELSE MulLoop(a, b, [j |-> Len(b), acc |-> <<>>])

\* The largest limb d in lo..hi with b * d <= r (b * lo <= r is given).
RECURSIVE QuotDigit(_, _, _, _)
QuotDigit(r, b, lo, hi) ==
    IF lo = hi THEN lo
    ELSE LET mid == (lo + hi + 1) \div 2
         IN IF BLe(BMulSmall(b, mid), r)
            THEN QuotDigit(r, b, mid, hi)
            ELSE QuotDigit(r, b, lo, mid - 1)

MinInt(x, y) == IF x <= y THEN x ELSE y

\* The next quotient limb, for the remainder r0 with a limb of the dividend
\* brought down: the largest d with b * d <= r0, found between the bounds
\* that the leading limbs of r0 and of b give.
DivDigit(r0, b) ==
    LET n == Len(b)
        rt == IF Len(r0) < n THEN 0
              ELSE IF Len(r0) = n THEN r0[n]
              ELSE r0[n + 1] * BASE + r0[n]
    IN IF n = 1 THEN rt \div b[1]
       ELSE QuotDigit(r0, b, rt \div (b[n] + 1),
                      MinInt(rt \div b[n], BASE - 1))

\* One step of the long division by b, from the most significant limb: the
\* quotient limb d of r0 goes to the quotient, r0 - b * d is the remainder.
DivStep(b, st, r0) ==
    LET Stepped(d) ==
            [i |-> st.i - 1, q |-> <<d>> \o st.q,
             r |-> BSub(r0, BMulSmall(b, d))]
    IN Stepped(DivDigit(r0, b))

\* The long division of a by b with st.i limbs of a still to bring down.
\* The result is the quotient q, the remainder r and the divisor b.
RECURSIVE DivLoop(_, _, _)
DivLoop(a, b, st) ==
    IF st.i = 0 THEN [q |-> Norm(st.q), r |-> st.r, b |-> b]
    ELSE DivLoop(a, b, DivStep(b, st, Norm(<<a[st.i]>> \o st.r)))

LongDiv(a, b) == DivLoop(a, b, [i |-> Len(a), q |-> <<>>, r |-> <<>>])

\* The division of a by b # 0 with both scaled by f, so that the leading
\* limb of a divisor of two limbs or more is at least BASE / 2 and the bounds
\* on a quotient limb are a few units apart.  q is the quotient of a by b;
\* r is f times the remainder and b f times the divisor.
ScaledDiv(a, b) ==
    LET f == IF Len(b) = 1 THEN 1 ELSE BASE \div (b[Len(b)] + 1)
    IN LongDiv(BMulSmall(a, f), BMulSmall(b, f))

BDiv(a, b) == ScaledDiv(a, b).q
BMod(a, b) == BSub(a, BMul(b, BDiv(a, b)))
BMin(a, b) == IF BLe(a, b) THEN a ELSE b

\* ------------------------------------------------------------------------
\* f64: IEEE 754 binary64 with round-to-nearest-even
\*
\* A finite value is s * m * 2^e for a sign s in {1, -1}, a natural m and an
\* integer e; every operation computes the exact rational result and rounds
\* it to the nearest value with a 53-bit significand (ties to even), as the
\* hardware does.  The magnitudes the program reaches (ratios and products
\* of u64 values) stay far inside the normal range, so neither overflow to
\* infinity by rounding nor subnormals are modelled.
\* ------------------------------------------------------------------------

RECURSIVE Pow2(_)
Pow2(k) == IF k < 13 THEN <<2 ^ k>> ELSE BMulSmall(Pow2(k - 13), 8192)

TWO_POW_52 == Pow2(52)
TWO_POW_53 == Pow2(53)

Fin(s, m, e) == [k |-> "fin", s |-> s, e |-> e, m |-> m]
Inf(s) == [k |-> "inf", s |-> s, m |-> <<>>, e |-> 0]
NaN == [k |-> "nan", s |-> 1, m |-> <<>>, e |-> 0]
F64Zero == Fin(1, Zero, 0)
F64One == Fin(1, One, 0)
F64Hundred == Fin(1, Nat2Big(100), 0)

IsZeroF(a) == a.k = "fin" /\ a.m = Zero

\* Round-to-nearest-even of the quotient of a division x (of ScaledDiv): the
\* quotient goes up when the remainder is more than half of the divisor, or
\* is half of it and the quotient is odd.
RoundHalfEven(x) ==
    LET c == BCmp(BMulSmall(x.r, 2), x.b)
    IN IF c > 0 \/ (c = 0 /\ x.q # <<>> /\ x.q[1] % 2 = 1)
       THEN BAdd(x.q, One)
       ELSE x.q

\* n / d >= 2^53: halve (d doubles, e grows) until n / d < 2^53, then round
\* n / d to a natural.  lim is d * 2^53, kept in step with d.
RECURSIVE ScaleDown(_, _, _, _)
ScaleDown(n, d, lim, e) ==
    IF BGe(n, BMulSmall(lim, 8192))
    THEN ScaleDown(n, BMulSmall(d, 8192), BMulSmall(lim, 8192), e + 13)
    ELSE IF BGe(n, BMulSmall(lim, 16))
    THEN ScaleDown(n, BMulSmall(d, 16), BMulSmall(lim, 16), e + 4)
    ELSE IF BGe(n, lim)
    THEN ScaleDown(n, BMulSmall(d, 2), BMulSmall(lim, 2), e + 1)
    ELSE [m |-> RoundHalfEven(ScaledDiv(n, d)), e |-> e]

\* n / d < 2^52: double (n doubles, e shrinks) until n / d >= 2^52, then
\* scale down and round.  lim is d * 2^52.
RECURSIVE ScaleUp(_, _, _, _)
ScaleUp(n, d, lim, e) ==
    IF BLt(BMulSmall(n, 8192), lim)
    THEN ScaleUp(BMulSmall(n, 8192), d, lim, e - 13)
    ELSE IF BLt(BMulSmall(n, 16), lim)
    THEN ScaleUp(BMulSmall(n, 16), d, lim, e - 4)
    ELSE IF BLt(n, lim)
    THEN ScaleUp(BMulSmall(n, 2), d, lim, e - 1)
    ELSE ScaleDown(n, d, BMulSmall(lim, 2), e)

\* The f64 nearest to s * (n / d) * 2^e for naturals n > 0 and d > 0: the
\* ratio is scaled into [2^52, 2^53) and rounded to a natural there.
RoundRat(s, n, d, e) ==
    LET Signed(r) == Fin(s, r.m, r.e)
    IN Signed(ScaleUp(n, d, BMul(d, TWO_POW_52), e))

\* x as f64 of a u64 x.
F64FromU64(x) == IF x = Zero THEN F64Zero ELSE RoundRat(1, x, One, 0)

F64Neg(a) == [a EXCEPT !.s = -a.s]
F64Abs(a) == [a EXCEPT !.s = 1]

\* The significand of the finite a at the exponent e <= a.e.
MantAt(a, e) == BMul(a.m, Pow2(a.e - e))

\* -1, 0, 1 as a < b, a = b, a > b, for a and b that are not NaN.
F64Cmp(a, b) ==
    LET sa == IF IsZeroF(a) THEN 0 ELSE a.s
        sb == IF IsZeroF(b) THEN 0 ELSE b.s
    IN IF sa # sb THEN (IF sa < sb THEN -1 ELSE 1)
       ELSE IF sa = 0 THEN 0
       ELSE IF a.k = "inf" /\ b.k = "inf" THEN 0
       ELSE IF a.k = "inf" THEN sa
       ELSE IF b.k = "inf" THEN -sa
       ELSE LET e == MinInt(a.e, b.e)
            IN sa * BCmp(MantAt(a, e), MantAt(b, e))

F64Lt(a, b) == a.k # "nan" /\ b.k # "nan" /\ F64Cmp(a, b) < 0
F64Gt(a, b) == a.k # "nan" /\ b.k # "nan" /\ F64Cmp(a, b) > 0
F64Ne(a, b) == a.k = "nan" \/ b.k = "nan" \/ F64Cmp(a, b) # 0

\* f64::max and f64::min: the other operand when one is NaN.
F64Max(a, b) ==
    IF a.k = "nan" THEN b ELSE IF b.k = "nan" THEN a
    ELSE IF F64Cmp(a, b) >= 0 THEN a ELSE b

F64Min(a, b) ==
    IF a.k = "nan" THEN b ELSE IF b.k = "nan" THEN a
    ELSE IF F64Cmp(a, b) <= 0 THEN a ELSE b

\* The sum of sa * x and sb * y as a sign and a magnitude.
AddSigned(sa, x, sb, y) ==
    IF sa = sb THEN [s |-> sa, m |-> BAdd(x, y)]
    ELSE IF BGt(x, y) THEN [s |-> sa, m |-> BSub(x, y)]
    ELSE [s |-> sb, m |-> BSub(y, x)]

\* The f64 nearest to r.s * r.m * 2^e.
RoundSigned(r, e) ==
    IF r.m = Zero THEN F64Zero ELSE RoundRat(r.s, r.m, One, e)

F64Add(a, b) ==
    IF a.k = "nan" \/ b.k = "nan" THEN NaN
    ELSE IF a.k = "inf" /\ b.k = "inf" THEN (IF a.s = b.s THEN a ELSE NaN)
    ELSE IF a.k = "inf" THEN a
    ELSE IF b.k = "inf" THEN b
    ELSE IF IsZeroF(a) THEN (IF IsZeroF(b) THEN F64Zero ELSE b)
    ELSE IF IsZeroF(b) THEN a
    ELSE LET e == MinInt(a.e, b.e)
         IN RoundSigned(AddSigned(a.s, MantAt(a, e), b.s, MantAt(b, e)), e)

F64Sub(a, b) == F64Add(a, F64Neg(b))

F64Mul(a, b) ==
    IF a.k = "nan" \/ b.k = "nan" THEN NaN
    ELSE IF a.k = "inf" \/ b.k = "inf"
    THEN (IF IsZeroF(a) \/ IsZeroF(b) THEN NaN ELSE Inf(a.s * b.s))
    ELSE IF IsZeroF(a) \/ IsZeroF(b) THEN Fin(a.s * b.s, Zero, 0)
    ELSE RoundRat(a.s * b.s, BMul(a.m, b.m), One, a.e + b.e)

F64Div(a, b) ==
    IF a.k = "nan" \/ b.k = "nan" THEN NaN
    ELSE IF a.k = "inf" THEN (IF b.k = "inf" THEN NaN ELSE Inf(a.s * b.s))
    ELSE IF b.k = "inf" THEN Fin(a.s * b.s, Zero, 0)
    ELSE IF IsZeroF(b) THEN (IF IsZeroF(a) THEN NaN ELSE Inf(a.s * b.s))
    ELSE IF IsZeroF(a) THEN Fin(a.s * b.s, Zero, 0)
    ELSE RoundRat(a.s * b.s, a.m, b.m, a.e - b.e)

\* a as u64: truncated towards zero and saturating; NaN is 0.
F64AsU64(a) ==
    IF a.k = "nan" THEN Zero
    ELSE IF a.s = -1 \/ IsZeroF(a) THEN Zero
    ELSE IF a.k = "inf" THEN Lit(<<1844, 6744, 737, 955, 1615>>)
    ELSE LET t == IF a.e >= 0 THEN BMul(a.m, Pow2(a.e))
                  ELSE BDiv(a.m, Pow2(-a.e))
         IN BMin(t, Lit(<<1844, 6744, 737, 955, 1615>>))

\* x as f64 of a u128 x.
F64FromU128(x) == IF x = Zero THEN F64Zero ELSE RoundRat(1, x, One, 0)

\* The floor of the square root of n > 0 by Newton's iteration from x, an
\* upper bound of the root: the iterates decrease until they reach it.
RECURSIVE SqrtLoop(_, _)
SqrtLoop(n, x) ==
    LET Stepped(y) == IF BGe(y, x) THEN x ELSE SqrtLoop(n, y)
    IN Stepped(BDiv(BAdd(x, BDiv(n, x)), Nat2Big(2)))

\* f64::sqrt, correctly rounded.  The significand is scaled to
\* n = m * 2^54 or m * 2^55 in [2^104, 2^108) with an even exponent left;
\* r = floor(sqrt(n)) has at least 53 bits, and 2 * r, plus one when r is
\* not the exact root, rounds as the root does.
F64Sqrt(a) ==
    LET Rooted(n, r, e) ==
            RoundRat(1, BAdd(BMulSmall(r, 2),
                             IF BMul(r, r) = n THEN Zero ELSE One),
                     One, e - 1)
        Scaled(n, e) == Rooted(n, SqrtLoop(n, Pow2(54)), e \div 2)
    IN IF a.k = "nan" THEN NaN
       ELSE IF IsZeroF(a) THEN a
       ELSE IF a.s = -1 THEN NaN
       ELSE IF a.k = "inf" THEN a
       ELSE IF a.e % 2 = 0 THEN Scaled(BMul(a.m, Pow2(54)), a.e - 54)
       ELSE Scaled(BMul(a.m, Pow2(55)), a.e - 55)

\* ------------------------------------------------------------------------
\* The program's integer types and outcomes
\* ------------------------------------------------------------------------

\* u64::MAX = 2^64 - 1 and u128::MAX = 2^128 - 1.
U64_MAX == Lit(<<1844, 6744, 737, 955, 1615>>)
U128_MAX == Lit(<<340, 2823, 6692, 938, 4634, 6337, 4607, 4317, 6821, 1455>>)

\* 10^6 = 100%.
MAX_PERCENTAGE == 1000000

\* u128::from(n) of a small constant n.
U128From(n) == Nat2Big(n)

\* x as u64 of a u128 x: the low 64 bits.
AsU64(x) == BMod(x, BAdd(U64_MAX, One))

\* What a call yields: Some(v) or None of an Option, Val(v) of a plain
\* return value, Panic when the call aborts (an unwrap of None).
Some(x) == [tag |-> "Some", v |-> x]
None == [tag |-> "None", v |-> <<>>]
Val(x) == [tag |-> "Val", v |-> x]
Panic == [tag |-> "Panic", v |-> <<>>]

checked_mul(a, b) ==
    LET p == BMul(a, b) IN IF BLe(p, U128_MAX) THEN Some(p) ELSE None

checked_add(a, b) ==
    LET s == BAdd(a, b) IN IF BLe(s, U128_MAX) THEN Some(s) ELSE None

checked_sub(a, b) == IF BLe(b, a) THEN Some(BSub(a, b)) ELSE None

checked_div(a, b) == IF b = Zero THEN None ELSE Some(BDiv(a, b))

\* opt.unwrap(): None aborts the call.
unwrap(opt) == IF opt.tag = "None" THEN Panic ELSE opt

\* The checked operation on the value of the step before it in a chain; a
\* None ("?") or an abort of that step is the outcome of the chain.
and_checked_add(opt, b) ==
    IF opt.tag # "Some" THEN opt ELSE checked_add(opt.v, b)

and_checked_sub(opt, b) ==
    IF opt.tag # "Some" THEN opt ELSE checked_sub(opt.v, b)

and_checked_div(opt, b) ==
    IF opt.tag # "Some" THEN opt ELSE checked_div(opt.v, b)

\* ------------------------------------------------------------------------
\* Fee calculator (utils.rs)
\* ------------------------------------------------------------------------

\* ceil_div without the "+ denominator - 1": the division rounds down.
ceil_div_rounds_down(token_amount, fee_numerator, fee_denominator) ==
    and_checked_div(unwrap(checked_mul(token_amount, fee_numerator)),
                    fee_denominator)

ceil_div(token_amount, fee_numerator, fee_denominator) ==
    and_checked_div(
        and_checked_sub(
            and_checked_add(
                unwrap(checked_mul(token_amount, fee_numerator)),
                fee_denominator),
            One),
        fee_denominator)

\* floor_div with the ceiling's "+ denominator - 1": the division rounds up.
floor_div_rounds_up(token_amount, fee_numerator, fee_denominator) ==
    and_checked_div(
        and_checked_add(checked_mul(token_amount, fee_numerator),
                        BSub(fee_denominator, One)),
        fee_denominator)

floor_div(token_amount, fee_numerator, fee_denominator) ==
    and_checked_div(checked_mul(token_amount, fee_numerator),
                    fee_denominator)

get_trade_fee(amount, trade_fee_rate) ==
    ceil_div(amount, trade_fee_rate, U128From(MAX_PERCENTAGE))

get_protocol_fee(amount, protocol_fee_rate) ==
    floor_div(amount, protocol_fee_rate, U128From(MAX_PERCENTAGE))

\* ------------------------------------------------------------------------
\* Constant-product swap engine (utils.rs)
\* ------------------------------------------------------------------------

\* swap_base_input_without_fees with the quotient rounded up.
swap_base_input_without_fees_rounds_up(source_amount, swap_source_amount, swap_destination_amount) ==
    LET Divided(numerator, denominator) ==
            IF numerator.tag = "None" \/ denominator.tag = "None" THEN Panic
            ELSE IF denominator.v = Zero THEN Panic
            ELSE Val(BDiv(BAdd(numerator.v, BSub(denominator.v, One)),
                          denominator.v))
    IN Divided(checked_mul(source_amount, swap_destination_amount),
               checked_add(swap_source_amount, source_amount))

\* Each of the three checked operations is unwrapped: None aborts.
swap_base_input_without_fees(source_amount, swap_source_amount, swap_destination_amount) ==
    LET Unwrapped(destination_amount_swapped) ==
            IF destination_amount_swapped.tag = "None" THEN Panic
            ELSE Val(destination_amount_swapped.v)
        Divided(numerator, denominator) ==
            IF numerator.tag = "None" \/ denominator.tag = "None" THEN None
            ELSE checked_div(numerator.v, denominator.v)
    IN Unwrapped(Divided(
           checked_mul(source_amount, swap_destination_amount),
           checked_add(swap_source_amount, source_amount)))

SwapResult(from_amount, to_amount, trade_fee, protocol_fee) ==
    [from_amount |-> from_amount, to_amount |-> to_amount,
     trade_fee |-> trade_fee, protocol_fee |-> protocol_fee]

\* swap that reports the gross source amount as from_amount and prices it.
swap_keeps_gross_amount(source_amount, pool_source_amount, pool_destination_amount, trade_fee_rate, protocol_fee_rate) ==
    LET Swapped(trade_fee, protocol_fee, destination_amount_swapped) ==
            IF protocol_fee.tag # "Some" THEN Panic
            ELSE IF destination_amount_swapped.tag = "Panic" THEN Panic
            ELSE Some(SwapResult(AsU64(source_amount),
                                 AsU64(destination_amount_swapped.v),
                                 AsU64(trade_fee.v),
                                 AsU64(protocol_fee.v)))
        WithTradeFee(trade_fee) ==
            IF trade_fee.tag # "Some" THEN Panic
            ELSE Swapped(trade_fee,
                         get_protocol_fee(trade_fee.v, protocol_fee_rate),
                         swap_base_input_without_fees(
                             source_amount, pool_source_amount,
                             pool_destination_amount))
    IN WithTradeFee(get_trade_fee(source_amount, trade_fee_rate))

\* The steps of swap in the order of the code, each on the values of the
\* steps before it: the two fees (unwrapped), the amount after the trade fee
\* (unwrapped), the constant-product output, and the casts to u64.
swap(source_amount, pool_source_amount, pool_destination_amount, trade_fee_rate, protocol_fee_rate) ==
    LET Swapped(trade_fee, protocol_fee, source_amount_post_fees, destination_amount_swapped) ==
            IF destination_amount_swapped.tag = "Panic" THEN Panic
            ELSE Some(SwapResult(AsU64(source_amount_post_fees.v),
                                 AsU64(destination_amount_swapped.v),
                                 AsU64(trade_fee.v),
                                 AsU64(protocol_fee.v)))
        WithPostFees(trade_fee, protocol_fee, source_amount_post_fees) ==
            IF source_amount_post_fees.tag = "None" THEN Panic
            ELSE Swapped(trade_fee, protocol_fee, source_amount_post_fees,
                         swap_base_input_without_fees(
                             source_amount_post_fees.v, pool_source_amount,
                             pool_destination_amount))
        WithProtocolFee(trade_fee, protocol_fee) ==
            IF protocol_fee.tag # "Some" THEN Panic
            ELSE WithPostFees(trade_fee, protocol_fee,
                              checked_sub(source_amount, trade_fee.v))
        WithTradeFee(trade_fee) ==
            IF trade_fee.tag # "Some" THEN Panic
            ELSE WithProtocolFee(
                     trade_fee,
                     get_protocol_fee(trade_fee.v, protocol_fee_rate))
    IN WithTradeFee(get_trade_fee(source_amount, trade_fee_rate))

\* ------------------------------------------------------------------------
\* Ratio-rebalance solver (swap.rs; utils.rs holds the same text)
\* ------------------------------------------------------------------------

RebalanceResult(from_to_lock, is_rate_tolerance_exceeded) ==
    [from_to_lock |-> from_to_lock,
     is_rate_tolerance_exceeded |-> is_rate_tolerance_exceeded]

\* The loop of rebalance_pool_ratio without the test new_ratio != 0.0: a
\* candidate that leaves nothing of the source can be the best one.
RECURSIVE RebalanceScan_keeps_zero_ratio(_, _, _, _, _)
RebalanceScan_keeps_zero_ratio(st, end_val, current_source_amount, remaining_destination, original_ratio) ==
    IF BGt(st.test_from_to_lock, end_val) THEN st
    ELSE IF BGt(st.test_from_to_lock, current_source_amount)
    THEN RebalanceScan_keeps_zero_ratio(
             [st EXCEPT !.test_from_to_lock = BAdd(@, One)],
             end_val, current_source_amount, remaining_destination,
             original_ratio)
    ELSE
    LET Kept(better, ratio_diff) ==
            RebalanceScan_keeps_zero_ratio(
                [test_from_to_lock |-> BAdd(st.test_from_to_lock, One),
                 best_from_to_lock |-> IF better THEN st.test_from_to_lock
                                       ELSE st.best_from_to_lock,
                 best_ratio_diff |-> IF better THEN ratio_diff
                                     ELSE st.best_ratio_diff],
                end_val, current_source_amount, remaining_destination,
                original_ratio)
        Tested(new_ratio) ==
            Kept(F64Lt(F64Abs(F64Sub(new_ratio, original_ratio)),
                       st.best_ratio_diff),
                 F64Abs(F64Sub(new_ratio, original_ratio)))
    IN Tested(F64Div(F64FromU64(BSub(current_source_amount,
                                     st.test_from_to_lock)),
                     F64FromU64(remaining_destination)))

\* The loop "for test_from_to_lock in start_val..=end_val" from the iteration
\* st.test_from_to_lock on; st also holds the best candidate so far.  One
\* iteration computes new_ratio, from it ratio_diff, and keeps the candidate
\* when it is better.
RECURSIVE RebalanceScan(_, _, _, _, _)
RebalanceScan(st, end_val, current_source_amount, remaining_destination, original_ratio) ==
    IF BGt(st.test_from_to_lock, end_val) THEN st
    ELSE IF BGt(st.test_from_to_lock, current_source_amount)
    THEN RebalanceScan([st EXCEPT !.test_from_to_lock = BAdd(@, One)],
                       end_val, current_source_amount, remaining_destination,
                       original_ratio)
    ELSE
    LET Kept(better, ratio_diff) ==
            RebalanceScan(
                [test_from_to_lock |-> BAdd(st.test_from_to_lock, One),
                 best_from_to_lock |-> IF better THEN st.test_from_to_lock
                                       ELSE st.best_from_to_lock,
                 best_ratio_diff |-> IF better THEN ratio_diff
                                     ELSE st.best_ratio_diff],
                end_val, current_source_amount, remaining_destination,
                original_ratio)
        Compared(new_ratio, ratio_diff) ==
            Kept(F64Lt(ratio_diff, st.best_ratio_diff)
                 /\ F64Ne(new_ratio, F64Zero),
                 ratio_diff)
        Tested(new_ratio) ==
            Compared(new_ratio, F64Abs(F64Sub(new_ratio, original_ratio)))
    IN Tested(F64Div(F64FromU64(BSub(current_source_amount,
                                     st.test_from_to_lock)),
                     F64FromU64(remaining_destination)))

\* The end of rebalance_pool_ratio, from the best from_to_lock of the loop:
\*   new_ratio = new_source_amount as f64 / remaining_destination as f64
\*   percentage_change = (new_ratio - original_ratio).abs()
\*                       / original_ratio * 100.0
\*   tolerance_percentage =
\*       (ratio_change_tolerance_rate as f64 / MAX_PERCENTAGE as f64) * 100.0
RebalanceWithLock(current_source_amount, remaining_destination, original_ratio, ratio_change_tolerance_rate, from_to_lock) ==
    IF checked_sub(current_source_amount, from_to_lock).tag = "None"
    THEN None
    ELSE Some(RebalanceResult(
             from_to_lock,
             F64Gt(F64Mul(F64Div(F64Abs(F64Sub(
                                     F64Div(F64FromU64(
                                                BSub(current_source_amount,
                                                     from_to_lock)),
                                            F64FromU64(
                                                remaining_destination)),
                                     original_ratio)),
                                 original_ratio),
                          F64Hundred),
                   F64Mul(F64Div(F64FromU64(ratio_change_tolerance_rate),
                                 F64FromU64(U128From(MAX_PERCENTAGE))),
                          F64Hundred))))

\* The search of rebalance_pool_ratio around exact_from_to_lock:
\*   start_val = (exact_from_to_lock - 1.0).max(0.0) as u64
\*   end_val = (exact_from_to_lock + 1.0).min(current_source_amount as f64)
\*             as u64
\* and the loop from start_val to end_val, which yields best_from_to_lock.
RebalanceSearch(current_source_amount, remaining_destination, original_ratio, exact_from_to_lock) ==
    RebalanceScan(
        [test_from_to_lock |->
             F64AsU64(F64Max(F64Sub(exact_from_to_lock, F64One), F64Zero)),
         best_from_to_lock |-> Zero,
         best_ratio_diff |-> Inf(1)],
        F64AsU64(F64Min(F64Add(exact_from_to_lock, F64One),
                        F64FromU64(current_source_amount))),
        current_source_amount, remaining_destination,
        original_ratio).best_from_to_lock

\* rebalance_pool_ratio from original_ratio on:
\*   exact_from_to_lock = current_source_amount as f64
\*                        - (remaining_destination as f64 * original_ratio)
RebalanceWithRatio(current_source_amount, remaining_destination, original_ratio, ratio_change_tolerance_rate) ==
    RebalanceWithLock(
        current_source_amount, remaining_destination, original_ratio,
        ratio_change_tolerance_rate,
        RebalanceSearch(
            current_source_amount, remaining_destination, original_ratio,
            F64Sub(F64FromU64(current_source_amount),
                   F64Mul(F64FromU64(remaining_destination),
                          original_ratio))))

\* rebalance_pool_ratio with a degenerate case that reports the tolerance
\* as met.
rebalance_pool_ratio_accepts_degenerate(to_amount_swapped, current_source_amount, current_destination_amount, original_source_amount, original_destination_amount, ratio_change_tolerance_rate) ==
    IF \/ BGe(to_amount_swapped, current_destination_amount)
       \/ current_source_amount = Zero
       \/ current_destination_amount = Zero
    THEN Some(RebalanceResult(Zero, FALSE))
    ELSE RebalanceWithRatio(
             current_source_amount,
             BSub(current_destination_amount, to_amount_swapped),
             F64Div(F64FromU64(original_source_amount),
                    F64FromU64(original_destination_amount)),
             ratio_change_tolerance_rate)

\* remaining_destination = current_destination_amount - to_amount_swapped
\* (the guard excludes the underflow) and
\* original_ratio = original_source_amount as f64
\*                  / original_destination_amount as f64.
rebalance_pool_ratio(to_amount_swapped, current_source_amount, current_destination_amount, original_source_amount, original_destination_amount, ratio_change_tolerance_rate) ==
    IF \/ BGe(to_amount_swapped, current_destination_amount)
       \/ current_source_amount = Zero
       \/ current_destination_amount = Zero
    THEN Some(RebalanceResult(Zero, TRUE))
    ELSE RebalanceWithRatio(
             current_source_amount,
             BSub(current_destination_amount, to_amount_swapped),
             F64Div(F64FromU64(original_source_amount),
                    F64FromU64(original_destination_amount)),
             ratio_change_tolerance_rate)

\* ------------------------------------------------------------------------
\* Token transfer fees (utils.rs, over spl_token_2022's TransferFeeConfig)
\* ------------------------------------------------------------------------

\* What a Result-returning call yields: Ok(v), Err(code), or Panic.
Ok(x) == [tag |-> "Ok", v |-> x]
Err(code) == [tag |-> "Err", v |-> code]

\* Option<TransferFeeConfig>: no extension on the mint, or the two fee
\* schedules of the extension and the epoch at which the newer one starts.
\* A schedule is basis points (a u16) and a maximum fee (a u64).
NoTransferFee == [tag |-> "None"]
TransferFee(basis_points, maximum_fee) ==
    [transfer_fee_basis_points |-> basis_points, maximum_fee |-> maximum_fee]
TransferFeeConfig(older_transfer_fee, newer_epoch, newer_transfer_fee) ==
    [tag |-> "Some", older_transfer_fee |-> older_transfer_fee,
     newer_epoch |-> newer_epoch, newer_transfer_fee |-> newer_transfer_fee]

ONE_IN_BASIS_POINTS == 10 * 1000

\* TransferFee::calculate_fee: raw_fee is the ceiling of numerator / 10_000
\* for numerator = amount * basis points; the fee is raw_fee capped by the
\* maximum fee, or None when raw_fee does not fit a u64.
calculate_fee(transfer_fee, pre_fee_amount) ==
    LET Capped(raw_fee) ==
            IF BGt(raw_fee, U64_MAX) THEN None
            ELSE Some(BMin(raw_fee, transfer_fee.maximum_fee))
    IN IF transfer_fee.transfer_fee_basis_points = 0 \/ pre_fee_amount = Zero
       THEN Some(Zero)
       ELSE Capped(BDiv(BAdd(BMulSmall(pre_fee_amount,
                                       transfer_fee.transfer_fee_basis_points),
                             Nat2Big(ONE_IN_BASIS_POINTS - 1)),
                        Nat2Big(ONE_IN_BASIS_POINTS)))

\* TransferFeeConfig::calculate_epoch_fee: the newer schedule from its epoch.
calculate_epoch_fee(config, epoch, pre_fee_amount) ==
    calculate_fee(IF epoch >= config.newer_epoch
                  THEN config.newer_transfer_fee
                  ELSE config.older_transfer_fee,
                  pre_fee_amount)

get_transfer_fee(transfer_fee_config, pre_fee_amount, epoch) ==
    LET Unwrapped(fee) == IF fee.tag = "None" THEN Panic ELSE Ok(fee.v)
    IN IF transfer_fee_config.tag = "None" THEN Ok(Zero)
       ELSE Unwrapped(calculate_epoch_fee(transfer_fee_config, epoch,
                                          pre_fee_amount))

\* ------------------------------------------------------------------------
\* Quote orchestrator (swap.rs)
\* ------------------------------------------------------------------------

AmmConfig(trade_fee_rate, protocol_fee_rate, ratio_change_tolerance_rate) ==
    [trade_fee_rate |-> trade_fee_rate,
     protocol_fee_rate |-> protocol_fee_rate,
     ratio_change_tolerance_rate |-> ratio_change_tolerance_rate]

QuoteOutput(from_amount, to_amount, to_amount_after_transfer_fees, from_amount_after_transfer_fees, trade_fee, protocol_fee, from_to_lock) ==
    [from_amount |-> from_amount, to_amount |-> to_amount,
     to_amount_after_transfer_fees |-> to_amount_after_transfer_fees,
     from_amount_after_transfer_fees |-> from_amount_after_transfer_fees,
     trade_fee |-> trade_fee, protocol_fee |-> protocol_fee,
     from_to_lock |-> from_to_lock]

\* The subtraction of u64 values that wraps around 2^64.
wrapping_sub(a, b) ==
    IF BLe(b, a) THEN BSub(a, b) ELSE BSub(BAdd(a, BAdd(U64_MAX, One)), b)

\* u64::saturating_sub.
saturating_sub(a, b) == IF BLe(b, a) THEN BSub(a, b) ELSE Zero

\* The end of quote without the check that the user receives something.
QuoteOutputLeg_keeps_zero_output(exchange_in, is_swap_x_to_y, output_transfer_fee_config, available_source, epoch, result_amounts, rebalance_result) ==
    LET Received(user_received_amount) ==
            IF user_received_amount.tag = "None" THEN Panic
            ELSE Ok(QuoteOutput(result_amounts.from_amount,
                                result_amounts.to_amount,
                                user_received_amount.v,
                                exchange_in,
                                result_amounts.trade_fee,
                                result_amounts.protocol_fee,
                                rebalance_result.from_to_lock))
        Charged(output_transfer_fee) ==
            IF output_transfer_fee.tag = "Panic" THEN Panic
            ELSE Received(checked_sub(result_amounts.to_amount,
                                      output_transfer_fee.v))
    IN IF rebalance_result.is_rate_tolerance_exceeded
       THEN Err("TradeTooBig")
       ELSE IF is_swap_x_to_y
               /\ BGe(rebalance_result.from_to_lock, available_source)
       THEN Err("InsufficientPoolTokenXBalance")
       ELSE IF ~is_swap_x_to_y
               /\ BGt(rebalance_result.from_to_lock, available_source)
       THEN Err("InsufficientPoolTokenYBalance")
       ELSE Charged(get_transfer_fee(output_transfer_fee_config,
                                     result_amounts.to_amount, epoch))

\* The end of quote with the boundary check of the lock made before the
\* tolerance check.
QuoteOutputLeg_checks_lock_first(exchange_in, is_swap_x_to_y, output_transfer_fee_config, available_source, epoch, result_amounts, rebalance_result) ==
    LET Received(user_received_amount) ==
            IF user_received_amount.tag = "None" THEN Panic
            ELSE IF user_received_amount.v = Zero THEN Err("OutputIsZero")
            ELSE Ok(QuoteOutput(result_amounts.from_amount,
                                result_amounts.to_amount,
                                user_received_amount.v,
                                exchange_in,
                                result_amounts.trade_fee,
                                result_amounts.protocol_fee,
                                rebalance_result.from_to_lock))
        Charged(output_transfer_fee) ==
            IF output_transfer_fee.tag = "Panic" THEN Panic
            ELSE Received(checked_sub(result_amounts.to_amount,
                                      output_transfer_fee.v))
    IN IF is_swap_x_to_y
          /\ BGe(rebalance_result.from_to_lock, available_source)
       THEN Err("InsufficientPoolTokenXBalance")
       ELSE IF ~is_swap_x_to_y
               /\ BGt(rebalance_result.from_to_lock, available_source)
       THEN Err("InsufficientPoolTokenYBalance")
       ELSE IF rebalance_result.is_rate_tolerance_exceeded
       THEN Err("TradeTooBig")
       ELSE Charged(get_transfer_fee(output_transfer_fee_config,
                                     result_amounts.to_amount, epoch))

\* The end of quote with the output transfer fee charged on swaps from X to
\* Y only.
QuoteOutputLeg_charges_x_to_y_only(exchange_in, is_swap_x_to_y, output_transfer_fee_config, available_source, epoch, result_amounts, rebalance_result) ==
    LET Received(user_received_amount) ==
            IF user_received_amount.tag = "None" THEN Panic
            ELSE IF user_received_amount.v = Zero THEN Err("OutputIsZero")
            ELSE Ok(QuoteOutput(result_amounts.from_amount,
                                result_amounts.to_amount,
                                user_received_amount.v,
                                exchange_in,
                                result_amounts.trade_fee,
                                result_amounts.protocol_fee,
                                rebalance_result.from_to_lock))
        Charged(output_transfer_fee) ==
            IF output_transfer_fee.tag = "Panic" THEN Panic
            ELSE Received(checked_sub(result_amounts.to_amount,
                                      output_transfer_fee.v))
    IN IF rebalance_result.is_rate_tolerance_exceeded
       THEN Err("TradeTooBig")
       ELSE IF is_swap_x_to_y
               /\ BGe(rebalance_result.from_to_lock, available_source)
       THEN Err("InsufficientPoolTokenXBalance")
       ELSE IF ~is_swap_x_to_y
               /\ BGt(rebalance_result.from_to_lock, available_source)
       THEN Err("InsufficientPoolTokenYBalance")
       ELSE Charged(get_transfer_fee(IF is_swap_x_to_y
                                     THEN output_transfer_fee_config
                                     ELSE NoTransferFee,
                                     result_amounts.to_amount, epoch))

\* The end of quote, from the results of swap and of rebalance_pool_ratio:
\* the tolerance and boundary checks, the transfer fee on the output and the
\* amount the user receives.
QuoteOutputLeg(exchange_in, is_swap_x_to_y, output_transfer_fee_config, available_source, epoch, result_amounts, rebalance_result) ==
    LET Received(user_received_amount) ==
            IF user_received_amount.tag = "None" THEN Panic
            ELSE IF user_received_amount.v = Zero THEN Err("OutputIsZero")
            ELSE Ok(QuoteOutput(result_amounts.from_amount,
                                result_amounts.to_amount,
                                user_received_amount.v,
                                exchange_in,
                                result_amounts.trade_fee,
                                result_amounts.protocol_fee,
                                rebalance_result.from_to_lock))
        Charged(output_transfer_fee) ==
            IF output_transfer_fee.tag = "Panic" THEN Panic
            ELSE Received(checked_sub(result_amounts.to_amount,
                                      output_transfer_fee.v))
    IN IF rebalance_result.is_rate_tolerance_exceeded
       THEN Err("TradeTooBig")
       ELSE IF is_swap_x_to_y
               /\ BGe(rebalance_result.from_to_lock, available_source)
       THEN Err("InsufficientPoolTokenXBalance")
       ELSE IF ~is_swap_x_to_y
               /\ BGt(rebalance_result.from_to_lock, available_source)
       THEN Err("InsufficientPoolTokenYBalance")
       ELSE Charged(get_transfer_fee(output_transfer_fee_config,
                                     result_amounts.to_amount, epoch))

\* quote from the result of swap on: rebalance_pool_ratio on the output of
\* the swap, then the end of quote.
QuoteRebalanceLeg(exchange_in, is_swap_x_to_y, amm_config, output_transfer_fee_config, available_source, available_destination, total_source, total_destination, epoch, result_amounts) ==
    LET Rebalanced(rebalance_result) ==
            IF rebalance_result.tag = "None" THEN Err("MathOverflow")
            ELSE QuoteOutputLeg(exchange_in, is_swap_x_to_y,
                                output_transfer_fee_config, available_source,
                                epoch, result_amounts.v, rebalance_result.v)
    IN IF result_amounts.tag = "Panic" THEN Panic
       ELSE IF result_amounts.tag = "None" THEN Err("MathOverflow")
       ELSE Rebalanced(rebalance_pool_ratio(
                           result_amounts.v.to_amount,
                           available_source, available_destination,
                           total_source, total_destination,
                           amm_config.ratio_change_tolerance_rate))

\* The steps of quote after the net input is known to be positive, for the
\* source and the destination side of the direction: swap, rebalance,
\* boundary checks, output transfer fee.
QuoteSwapLeg(exchange_in, is_swap_x_to_y, amm_config, output_transfer_fee_config, available_source, available_destination, total_source, total_destination, epoch) ==
    QuoteRebalanceLeg(exchange_in, is_swap_x_to_y, amm_config,
                      output_transfer_fee_config,
                      available_source, available_destination,
                      total_source, total_destination, epoch,
                      swap(exchange_in, available_source,
                           available_destination,
                           amm_config.trade_fee_rate,
                           amm_config.protocol_fee_rate))

quote(amount_in, is_swap_x_to_y, amm_config, token_x_transfer_fee_config, token_y_transfer_fee_config, token_x_mint, token_y_mint, protocol_fee_x, protocol_fee_y, user_locked_x, user_locked_y, locked_x, locked_y, reserve_x_balance, reserve_y_balance, epoch) ==
    LET total_token_x_amount ==
            unwrap(and_checked_sub(
                       unwrap(checked_sub(reserve_x_balance, protocol_fee_x)),
                       user_locked_x))
        total_token_y_amount ==
            unwrap(and_checked_sub(
                       unwrap(checked_sub(reserve_y_balance, protocol_fee_y)),
                       user_locked_y))
        available_token_x_amount ==
            unwrap(and_checked_sub(total_token_x_amount, locked_x))
        available_token_y_amount ==
            unwrap(and_checked_sub(total_token_y_amount, locked_y))
        input_transfer_fee ==
            get_transfer_fee(IF is_swap_x_to_y
                             THEN token_x_transfer_fee_config
                             ELSE token_y_transfer_fee_config,
                             amount_in, epoch)
        exchange_in == saturating_sub(amount_in, input_transfer_fee.v)
        output_mint == IF is_swap_x_to_y THEN token_y_mint ELSE token_x_mint
        output_transfer_fee_config ==
            IF output_mint = token_x_mint
            THEN token_x_transfer_fee_config
            ELSE token_y_transfer_fee_config
    IN IF \/ available_token_x_amount.tag = "Panic"
          \/ available_token_y_amount.tag = "Panic"
       THEN Panic
       ELSE IF input_transfer_fee.tag = "Panic" THEN Panic
       ELSE IF exchange_in = Zero THEN Err("InputAmountTooSmall")
       ELSE IF is_swap_x_to_y
       THEN QuoteSwapLeg(exchange_in, TRUE, amm_config,
                         output_transfer_fee_config,
                         available_token_x_amount.v,
                         available_token_y_amount.v,
                         total_token_x_amount.v,
                         total_token_y_amount.v, epoch)
       ELSE QuoteSwapLeg(exchange_in, FALSE, amm_config,
                         output_transfer_fee_config,
                         available_token_y_amount.v,
                         available_token_x_amount.v,
                         total_token_y_amount.v,
                         total_token_x_amount.v, epoch)

\* ------------------------------------------------------------------------
\* Liquidity (liquidity.rs)
\* ------------------------------------------------------------------------

\* a * b on u64.  When the product does not fit 64 bits, a build with
\* overflow checks (the debug profile) panics and one without them (the
\* release profile) keeps the low 64 bits; the crate fixes neither.
mul_u64(overflow_checks, a, b) ==
    LET Fitted(product) ==
            IF BLe(product, U64_MAX) THEN Val(product)
            ELSE IF overflow_checks THEN Panic
            ELSE Val(AsU64(product))
    IN Fitted(BMul(a, b))

\* a / b on u64 for a product a that was computed: a zero divisor panics.
and_div_u64(a, b) ==
    IF a.tag = "Panic" THEN Panic
    ELSE IF b = Zero THEN Panic
    ELSE Val(BDiv(a.v, b))

\* The first deposit of deposit_lp:
\*   ((token_a_amount as u128 * token_b_amount as u128) as f64).sqrt() as u64
deposit_lp_initial(token_a_amount, token_b_amount) ==
    Val(F64AsU64(F64Sqrt(F64FromU128(BMul(token_a_amount,
                                          token_b_amount)))))

\* deposit_lp that mints the larger of the two shares.
deposit_lp_mints_larger_share(overflow_checks, token_a_amount, token_b_amount, total_lp_supply, token_a_reserve, token_b_reserve) ==
    LET Most(token_a_lp, token_b_lp) ==
            IF token_a_lp.tag = "Panic" \/ token_b_lp.tag = "Panic"
            THEN Panic
            ELSE Val(IF BGe(token_a_lp.v, token_b_lp.v) THEN token_a_lp.v
                     ELSE token_b_lp.v)
    IN IF total_lp_supply = Zero
       THEN deposit_lp_initial(token_a_amount, token_b_amount)
       ELSE Most(and_div_u64(mul_u64(overflow_checks, token_a_amount,
                                     total_lp_supply),
                             token_a_reserve),
                 and_div_u64(mul_u64(overflow_checks, token_b_amount,
                                     total_lp_supply),
                             token_b_reserve))

deposit_lp(overflow_checks, token_a_amount, token_b_amount, total_lp_supply, token_a_reserve, token_b_reserve) ==
    LET Least(token_a_lp, token_b_lp) ==
            IF token_a_lp.tag = "Panic" \/ token_b_lp.tag = "Panic"
            THEN Panic
            ELSE Val(BMin(token_a_lp.v, token_b_lp.v))
    IN IF total_lp_supply = Zero
       THEN deposit_lp_initial(token_a_amount, token_b_amount)
       ELSE Least(and_div_u64(mul_u64(overflow_checks, token_a_amount,
                                      total_lp_supply),
                              token_a_reserve),
                  and_div_u64(mul_u64(overflow_checks, token_b_amount,
                                      total_lp_supply),
                              token_b_reserve))

withdraw_lp(overflow_checks, lp_tokens, total_lp_supply, token_a_reserve, token_b_reserve) ==
    LET Both(token_a_amount, token_b_amount) ==
            IF token_a_amount.tag = "Panic" \/ token_b_amount.tag = "Panic"
            THEN Panic
            ELSE Val(<<token_a_amount.v, token_b_amount.v>>)
    IN IF total_lp_supply = Zero THEN Val(<<Zero, Zero>>)
       ELSE Both(and_div_u64(mul_u64(overflow_checks, lp_tokens,
                                     token_a_reserve),
                             total_lp_supply),
                 and_div_u64(mul_u64(overflow_checks, lp_tokens,
                                     token_b_reserve),
                             total_lp_supply))

\* ------------------------------------------------------------------------
\* The calls a caller can make, as a state machine: from "idle" one call of
\* a function on inputs of its parameter types, which leaves the inputs and
\* the outcome in the state; Return hands the outcome to the caller.
\* ------------------------------------------------------------------------

\* pc, fn, args and out are the call in progress; memo is a call of quote
\* the caller has kept the arguments and the outcome of, to compare a later
\* call with; amm_pool is the pool of a caller that applies the results of
\* swap, deposit_lp and withdraw_lp to the amounts it holds.
VARIABLES pc, fn, args, out, memo, amm_pool

vars == <<pc, fn, args, out, memo, amm_pool>>

\* Small values are enumerated exhaustively up to these bounds.
MaxSmall == 6
MaxPool == 3

Small(n) == {Nat2Big(i) : i \in 0..n}

TWO_POW_64 == BAdd(U64_MAX, One)
TWO_POW_66 == BMulSmall(TWO_POW_64, 4)

\* u128 amounts handed to the fee functions: small ones, ones around the
\* denominator, and the ends of the u64 and u128 ranges.
FeeAmounts ==
    Small(MaxSmall) \cup
    { Nat2Big(999999), Nat2Big(1000000), Nat2Big(1000001), U64_MAX,
      BDiv(U128_MAX, Nat2Big(2)),
      BSub(U128_MAX, Nat2Big(1000000)), BSub(U128_MAX, Nat2Big(999999)),
      U128_MAX }

\* u64 fee rates: 0%, the smallest, 0.25%, a third, a half, just under 100%,
\* 100%, and rates above 100%.
FeeRates ==
    { Nat2Big(0), Nat2Big(1), Nat2Big(2), Nat2Big(2500), Nat2Big(333334),
      Nat2Big(500000), Nat2Big(999999), Nat2Big(1000000), Nat2Big(1000001),
      U64_MAX }

\* The rows of the test constant_product_swap_rounding:
\* <<source_amount, swap_source_amount, swap_destination_amount,
\*   expected_destination_amount>>.
RoundingTable ==
    { <<Nat2Big(10), Nat2Big(4000000), Lit(<<700, 0, 0>>), Nat2Big(174999)>>,
      <<Nat2Big(20), Nat2Big(29980), Nat2Big(10000), Nat2Big(6)>>,
      <<Nat2Big(19), Nat2Big(29980), Nat2Big(10000), Nat2Big(6)>>,
      <<Nat2Big(18), Nat2Big(29980), Nat2Big(10000), Nat2Big(6)>>,
      <<Nat2Big(10), Nat2Big(20000), Nat2Big(30000), Nat2Big(14)>>,
      <<Nat2Big(10), Nat2Big(19991), Nat2Big(30000), Nat2Big(14)>>,
      <<Nat2Big(10), Nat2Big(19990), Nat2Big(30000), Nat2Big(15)>>,
      <<Nat2Big(100), Nat2Big(60000), Nat2Big(30000), Nat2Big(49)>>,
      <<Nat2Big(99), Nat2Big(60000), Nat2Big(30000), Nat2Big(49)>>,
      <<Nat2Big(98), Nat2Big(60000), Nat2Big(30000), Nat2Big(48)>> }

RoundingRows == { <<r[1], r[2], r[3]>> : r \in RoundingTable }

\* The ends of the u64 and u128 ranges.
EdgeAmounts ==
    { Nat2Big(1), Nat2Big(2), BSub(U64_MAX, One), U64_MAX, TWO_POW_64,
      TWO_POW_66, U128_MAX }

BaseInputs ==
    (Small(MaxSmall) \X Small(MaxSmall) \X Small(MaxSmall))
    \cup RoundingRows
    \cup (EdgeAmounts \X EdgeAmounts \X EdgeAmounts)

SwapSources ==
    Small(MaxSmall) \cup
    { Nat2Big(1000), Nat2Big(1000001), U64_MAX, TWO_POW_64 }

SwapPools ==
    Small(MaxPool) \cup
    { Nat2Big(1000), U64_MAX, TWO_POW_66, U128_MAX }

TradeFeeRates ==
    { Nat2Big(0), Nat2Big(1), Nat2Big(2500), Nat2Big(500000),
      Nat2Big(999999), Nat2Big(1000000) }

ProtocolFeeRates ==
    { Nat2Big(0), Nat2Big(1), Nat2Big(500000), Nat2Big(1000000) }

\* Nominal inputs of quote: the smallest ones, a mid-size one and the top of
\* the u64 range.
MaxAmountIn == 2

QuoteAmounts ==
    {Nat2Big(i) : i \in 0..MaxAmountIn} \cup {Nat2Big(1000), U64_MAX}

\* One side of the pool's books:
\* <<reserve balance, protocol fee, user-locked, pool-locked>>.
ConsistentSides ==
    { <<Nat2Big(1000), Zero, Zero, Zero>>,
      <<Nat2Big(1000), Nat2Big(10), Nat2Big(20), Nat2Big(70)>>,
      <<Nat2Big(5), Nat2Big(2), Nat2Big(3), Zero>>,
      <<U64_MAX, Zero, Zero, Zero>> }

\* The protocol fee alone, the protocol fee with the user-locked amount, or
\* the pool-locked amount is more than what it is deducted from.
InconsistentSides ==
    { <<Zero, One, Zero, Zero>>,
      <<Nat2Big(5), Nat2Big(3), Nat2Big(3), Zero>>,
      <<Nat2Big(5), Zero, Zero, Nat2Big(6)>> }

\* <<side X, side Y>>: both consistent, or one of them inconsistent.
QuoteBooks ==
    (ConsistentSides \X ConsistentSides)
    \cup (InconsistentSides \X {<<Nat2Big(1000), Zero, Zero, Zero>>})
    \cup ({<<Nat2Big(1000), Zero, Zero, Zero>>} \X InconsistentSides)

\* No fees with any ratio change tolerated; 0.25% with half of it to the
\* protocol and 1% tolerated; 100% fees with no change tolerated.
QuoteAmmConfigs ==
    { AmmConfig(Nat2Big(0), Nat2Big(0), Nat2Big(1000000)),
      AmmConfig(Nat2Big(2500), Nat2Big(500000), Nat2Big(10000)),
      AmmConfig(Nat2Big(1000000), Nat2Big(1000000), Nat2Big(0)) }

\* A mint without the extension, and one that charges 1% capped at 5 units
\* before epoch 1 and 200% uncapped from epoch 1 on.
QuoteTransferFeeConfigs ==
    { NoTransferFee,
      TransferFeeConfig(TransferFee(100, Nat2Big(5)), 1,
                        TransferFee(20000, U64_MAX)) }

QuoteEpochs == {0, 1}

\* The rows of the test test_from_to_lock_transition_manually:
\* <<to_amount_swapped, current_source_amount, current_destination_amount,
\*   original_source_amount, original_destination_amount, is_out_of_range,
\*   tolerance_rate>>.
RebalanceTable ==
    { <<Nat2Big(500), Nat2Big(100), Nat2Big(1000000), Nat2Big(100),
        Nat2Big(1000000), TRUE, Nat2Big(100)>>,
      <<Nat2Big(500), Nat2Big(100), Nat2Big(1000000), Nat2Big(100),
        Nat2Big(1000000), TRUE, Nat2Big(499)>>,
      <<Nat2Big(500), Nat2Big(100), Nat2Big(1000000), Nat2Big(100),
        Nat2Big(1000000), TRUE, Nat2Big(500)>>,
      <<Nat2Big(500), Nat2Big(100), Nat2Big(1000000), Nat2Big(100),
        Nat2Big(1000000), FALSE, Nat2Big(501)>>,
      <<Lit(<<19, 8014, 8883>>), Nat2Big(1000000), Lit(<<20, 0, 0>>),
        Nat2Big(1000000), Lit(<<20, 0, 0>>), FALSE, Nat2Big(100)>>,
      <<Lit(<<19, 8014, 8883>>), Nat2Big(1000000), Lit(<<20, 0, 0>>),
        Nat2Big(1000000), Lit(<<20, 0, 0>>), TRUE, Nat2Big(40)>>,
      <<Nat2Big(10000000), Nat2Big(9926), Nat2Big(19851117),
        Nat2Big(1000000), Lit(<<20, 0, 0>>), TRUE, Nat2Big(40)>>,
      <<Nat2Big(49), Nat2Big(1), Nat2Big(100), Nat2Big(1), Nat2Big(100),
        FALSE, Nat2Big(990000)>>,
      <<Nat2Big(100), Nat2Big(1), Nat2Big(100), Nat2Big(1), Nat2Big(100),
        TRUE, Nat2Big(990000)>>,
      <<Nat2Big(100), Nat2Big(0), Nat2Big(100), Nat2Big(1), Nat2Big(100),
        TRUE, Nat2Big(1000000)>>,
      <<Nat2Big(100), Nat2Big(100), Nat2Big(0), Nat2Big(1), Nat2Big(100),
        TRUE, Nat2Big(1000000)>> }

\* Current amounts and swapped amounts are enumerated up to this bound.
MaxRebalance == 3

\* Tolerance rates: none, 30%, a half, all.
RebalanceTolerances ==
    { Nat2Big(0), Nat2Big(300000), Nat2Big(500000), Nat2Big(1000000) }

\* <<original_source_amount, original_destination_amount>>.
RebalanceOriginals ==
    { <<Nat2Big(1), Nat2Big(1)>>, <<Nat2Big(1), Nat2Big(3)>>,
      <<Nat2Big(10), Nat2Big(10)>>, <<Nat2Big(1), Nat2Big(2)>>,
      <<Nat2Big(3), Nat2Big(2)>>, <<Nat2Big(0), Nat2Big(1)>> }

TWO_POW_54 == Pow2(54)

\* <<to_amount_swapped, current_source_amount, current_destination_amount>>
\* of pools whose amounts need more than the 53 bits of an f64 significand.
RebalanceLargePools ==
    { <<Zero, BAdd(TWO_POW_54, Nat2Big(d)), TWO_POW_54>> : d \in 0..8 }
    \cup { <<One, U64_MAX, U64_MAX>>,
           <<Zero, BSub(U64_MAX, Nat2Big(1000)), U64_MAX>> }

\* <<to_amount_swapped, current_source_amount, current_destination_amount,
\*   original_source_amount, original_destination_amount,
\*   ratio_change_tolerance_rate>>: the rows of the test, every small case,
\* 7 : 10 left of a pool that was 10 : 10, the large pools at 1 : 1, and
\* 2 : 5, 3 : 5, 4 : 5 left of a pool that was 3 : 10.
RebalanceInputs ==
    { <<r[1], r[2], r[3], r[4], r[5], r[7]>> : r \in RebalanceTable }
    \cup { <<s[1], s[2], s[3], o[1], o[2], t>> :
              s \in Small(MaxRebalance) \X Small(MaxRebalance)
                    \X Small(MaxRebalance),
              o \in RebalanceOriginals, t \in RebalanceTolerances }
    \cup { <<Nat2Big(1), Nat2Big(7), Nat2Big(11), Nat2Big(10), Nat2Big(10),
             t>> : t \in RebalanceTolerances }
    \cup { <<s[1], s[2], s[3], One, One, Nat2Big(500000)>> :
              s \in RebalanceLargePools }
    \cup { <<Zero, Nat2Big(s), Nat2Big(5), Nat2Big(3), Nat2Big(10), t>> :
              s \in 2..4, t \in RebalanceTolerances }

\* Amounts of liquidity.rs are enumerated up to this bound.
MaxLp == 3

TWO_POW_32 == Pow2(32)

\* Amounts deposited and LP tokens withdrawn: small ones, the ones of the
\* tests, pairs around 2^32 and 2^60 whose product is one less than a
\* square, and u64::MAX.
LpAmounts ==
    Small(MaxLp) \cup
    { Nat2Big(100), Nat2Big(200), Nat2Big(1000), Nat2Big(2000),
      BSub(TWO_POW_32, One), TWO_POW_32, BAdd(TWO_POW_32, One),
      BSub(Pow2(60), One), BAdd(Pow2(60), One), U64_MAX }

LpSupplies == { Nat2Big(0), Nat2Big(1), Nat2Big(1000), TWO_POW_32, U64_MAX }

\* <<token_a_reserve, token_b_reserve>>.
LpReserves ==
    { <<Nat2Big(0), Nat2Big(0)>>, <<Nat2Big(1), Nat2Big(1)>>,
      <<Nat2Big(3), Nat2Big(2)>>, <<Nat2Big(1000), Nat2Big(2000)>>,
      <<TWO_POW_32, Nat2Big(1000)>>, <<U64_MAX, U64_MAX>> }

\* <<<<token_x_mint, token_y_mint>>, books>>: a pool of two mints with any
\* of the books, or the same Pubkey given twice with consistent books.
QuotePools ==
    ({<<"mint_x", "mint_y">>} \X QuoteBooks)
    \cup ({<<"mint_xy", "mint_xy">>}
          \X ({ <<Nat2Big(1000), Zero, Zero, Zero>>,
                <<Nat2Big(1000), Nat2Big(10), Nat2Big(20), Nat2Big(70)>> }
              \X {<<Nat2Big(1000), Zero, Zero, Zero>>}))

Idle == [tag |-> "Idle", v |-> <<>>]

NoMemo == [tag |-> "None"]

NoPool == [tag |-> "None"]

\* A caller applies at most this many swaps to its pool.
MaxSwaps == 3

\* <<x, y>> a pool of swaps starts from: each side 1 .. 3, a thousand a
\* side, and one unit against the largest u64.
PoolReserves ==
    { <<Nat2Big(x), Nat2Big(y)>> : x \in 1..3, y \in 1..3 }
    \cup { <<Nat2Big(1000), Nat2Big(1000)>>, <<One, U64_MAX>> }

\* source_amount of a swap on the pool.
PoolSources == { Nat2Big(1), Nat2Big(2), Nat2Big(1000) }

\* <<trade_fee_rate, protocol_fee_rate>>: none, 0.25% with a half of it,
\* and all of the amount.
PoolRates ==
    { <<Zero, Zero>>, <<Nat2Big(2500), Nat2Big(500000)>>,
      <<Nat2Big(1000000), Nat2Big(1000000)>> }

\* A caller applies at most this many deposits and withdrawals after the
\* first deposit.
MaxLpSteps == 3

Init ==
    /\ pc = "idle"
    /\ fn = "none"
    /\ args = <<>>
    /\ out = Idle
    /\ memo = NoMemo
    /\ amm_pool = NoPool

Call_get_trade_fee ==
    /\ pc = "idle"
    /\ amm_pool = NoPool
    /\ \E amount \in FeeAmounts, trade_fee_rate \in FeeRates :
        /\ args' = [amount |-> amount, trade_fee_rate |-> trade_fee_rate]
        /\ out' = get_trade_fee(amount, trade_fee_rate)
    /\ fn' = "get_trade_fee"
    /\ pc' = "returned"
    /\ UNCHANGED <<memo, amm_pool>>

Call_get_protocol_fee ==
    /\ pc = "idle"
    /\ amm_pool = NoPool
    /\ \E amount \in FeeAmounts, protocol_fee_rate \in FeeRates :
        /\ args' = [amount |-> amount, protocol_fee_rate |-> protocol_fee_rate]
        /\ out' = get_protocol_fee(amount, protocol_fee_rate)
    /\ fn' = "get_protocol_fee"
    /\ pc' = "returned"
    /\ UNCHANGED <<memo, amm_pool>>

Call_swap_base_input_without_fees ==
    /\ pc = "idle"
    /\ amm_pool = NoPool
    /\ \E i \in BaseInputs :
        /\ args' = [source_amount |-> i[1], swap_source_amount |-> i[2],
                    swap_destination_amount |-> i[3]]
        /\ out' = swap_base_input_without_fees(i[1], i[2], i[3])
    /\ fn' = "swap_base_input_without_fees"
    /\ pc' = "returned"
    /\ UNCHANGED <<memo, amm_pool>>

Call_swap ==
    /\ pc = "idle"
    /\ amm_pool = NoPool
    /\ \E source_amount \in SwapSources, pool_source_amount \in SwapPools,
          pool_destination_amount \in SwapPools,
          trade_fee_rate \in TradeFeeRates,
          protocol_fee_rate \in ProtocolFeeRates :
        /\ args' = [source_amount |-> source_amount,
                    pool_source_amount |-> pool_source_amount,
                    pool_destination_amount |-> pool_destination_amount,
                    trade_fee_rate |-> trade_fee_rate,
                    protocol_fee_rate |-> protocol_fee_rate]
        /\ out' = swap(source_amount, pool_source_amount,
                       pool_destination_amount, trade_fee_rate,
                       protocol_fee_rate)
    /\ fn' = "swap"
    /\ pc' = "returned"
    /\ UNCHANGED <<memo, amm_pool>>

Call_rebalance_pool_ratio ==
    /\ pc = "idle"
    /\ amm_pool = NoPool
    /\ \E i \in RebalanceInputs :
        /\ args' = [to_amount_swapped |-> i[1],
                    current_source_amount |-> i[2],
                    current_destination_amount |-> i[3],
                    original_source_amount |-> i[4],
                    original_destination_amount |-> i[5],
                    ratio_change_tolerance_rate |-> i[6]]
        /\ out' = rebalance_pool_ratio(i[1], i[2], i[3], i[4], i[5], i[6])
    /\ fn' = "rebalance_pool_ratio"
    /\ pc' = "returned"
    /\ UNCHANGED <<memo, amm_pool>>

Call_deposit_lp ==
    /\ pc = "idle"
    /\ amm_pool = NoPool
    /\ \E overflow_checks \in BOOLEAN,
          token_a_amount \in LpAmounts, token_b_amount \in LpAmounts,
          total_lp_supply \in LpSupplies, reserves \in LpReserves :
        /\ args' = [overflow_checks |-> overflow_checks,
                    token_a_amount |-> token_a_amount,
                    token_b_amount |-> token_b_amount,
                    total_lp_supply |-> total_lp_supply,
                    token_a_reserve |-> reserves[1],
                    token_b_reserve |-> reserves[2]]
        /\ out' = deposit_lp(overflow_checks, token_a_amount, token_b_amount,
                             total_lp_supply, reserves[1], reserves[2])
    /\ fn' = "deposit_lp"
    /\ pc' = "returned"
    /\ UNCHANGED <<memo, amm_pool>>

Call_withdraw_lp ==
    /\ pc = "idle"
    /\ amm_pool = NoPool
    /\ \E overflow_checks \in BOOLEAN, lp_tokens \in LpAmounts,
          total_lp_supply \in LpSupplies, reserves \in LpReserves :
        /\ args' = [overflow_checks |-> overflow_checks,
                    lp_tokens |-> lp_tokens,
                    total_lp_supply |-> total_lp_supply,
                    token_a_reserve |-> reserves[1],
                    token_b_reserve |-> reserves[2]]
        /\ out' = withdraw_lp(overflow_checks, lp_tokens, total_lp_supply,
                              reserves[1], reserves[2])
    /\ fn' = "withdraw_lp"
    /\ pc' = "returned"
    /\ UNCHANGED <<memo, amm_pool>>

\* A quote that fails once the caller has kept an earlier outcome.
Call_quote_with_hidden_state ==
    /\ pc = "idle"
    /\ amm_pool = NoPool
    /\ \E amount_in \in QuoteAmounts, is_swap_x_to_y \in BOOLEAN,
          amm_config \in QuoteAmmConfigs,
          token_x_transfer_fee_config \in QuoteTransferFeeConfigs,
          token_y_transfer_fee_config \in QuoteTransferFeeConfigs,
          pool \in QuotePools, epoch \in QuoteEpochs :
        /\ args' = [amount_in |-> amount_in,
                    is_swap_x_to_y |-> is_swap_x_to_y,
                    amm_config |-> amm_config,
                    token_x_transfer_fee_config |-> token_x_transfer_fee_config,
                    token_y_transfer_fee_config |-> token_y_transfer_fee_config,
                    token_x_mint |-> pool[1][1], token_y_mint |-> pool[1][2],
                    protocol_fee_x |-> pool[2][1][2],
                    protocol_fee_y |-> pool[2][2][2],
                    user_locked_x |-> pool[2][1][3],
                    user_locked_y |-> pool[2][2][3],
                    locked_x |-> pool[2][1][4], locked_y |-> pool[2][2][4],
                    reserve_x_balance |-> pool[2][1][1],
                    reserve_y_balance |-> pool[2][2][1],
                    epoch |-> epoch]
        /\ out' = IF memo # NoMemo THEN Err("MathOverflow")
                  ELSE quote(amount_in, is_swap_x_to_y, amm_config,
                               token_x_transfer_fee_config,
                               token_y_transfer_fee_config,
                               pool[1][1], pool[1][2],
                               pool[2][1][2], pool[2][2][2],
                               pool[2][1][3], pool[2][2][3],
                               pool[2][1][4], pool[2][2][4],
                               pool[2][1][1], pool[2][2][1], epoch)
    /\ fn' = "quote"
    /\ pc' = "returned"
    /\ UNCHANGED <<memo, amm_pool>>

Call_quote ==
    /\ pc = "idle"
    /\ amm_pool = NoPool
    /\ \E amount_in \in QuoteAmounts, is_swap_x_to_y \in BOOLEAN,
          amm_config \in QuoteAmmConfigs,
          token_x_transfer_fee_config \in QuoteTransferFeeConfigs,
          token_y_transfer_fee_config \in QuoteTransferFeeConfigs,
          pool \in QuotePools, epoch \in QuoteEpochs :
        /\ args' = [amount_in |-> amount_in,
                    is_swap_x_to_y |-> is_swap_x_to_y,
                    amm_config |-> amm_config,
                    token_x_transfer_fee_config |-> token_x_transfer_fee_config,
                    token_y_transfer_fee_config |-> token_y_transfer_fee_config,
                    token_x_mint |-> pool[1][1], token_y_mint |-> pool[1][2],
                    protocol_fee_x |-> pool[2][1][2],
                    protocol_fee_y |-> pool[2][2][2],
                    user_locked_x |-> pool[2][1][3],
                    user_locked_y |-> pool[2][2][3],
                    locked_x |-> pool[2][1][4], locked_y |-> pool[2][2][4],
                    reserve_x_balance |-> pool[2][1][1],
                    reserve_y_balance |-> pool[2][2][1],
                    epoch |-> epoch]
        /\ out' = quote(amount_in, is_swap_x_to_y, amm_config,
                        token_x_transfer_fee_config,
                        token_y_transfer_fee_config, pool[1][1], pool[1][2],
                        pool[2][1][2], pool[2][2][2],
                        pool[2][1][3], pool[2][2][3],
                        pool[2][1][4], pool[2][2][4],
                        pool[2][1][1], pool[2][2][1], epoch)
    /\ fn' = "quote"
    /\ pc' = "returned"
    /\ UNCHANGED <<memo, amm_pool>>

Return ==
    /\ pc = "returned"
    /\ pc' = "idle"
    /\ fn' = "none"
    /\ args' = <<>>
    /\ out' = Idle
    /\ UNCHANGED <<memo, amm_pool>>

\* The calls of quote a caller keeps to repeat later: 1000 units of X, or
\* none at all, into a pool of two mints with 1000 units a side, at 0.25%
\* with half of it to the protocol and 1% tolerated.
KeptCall(a) ==
    /\ a.amount_in \in {Zero, Nat2Big(1000)}
    /\ a.is_swap_x_to_y
    /\ a.amm_config
           = AmmConfig(Nat2Big(2500), Nat2Big(500000), Nat2Big(10000))
    /\ a.token_x_transfer_fee_config = NoTransferFee
    /\ a.token_y_transfer_fee_config = NoTransferFee
    /\ a.token_x_mint # a.token_y_mint
    /\ <<a.reserve_x_balance, a.protocol_fee_x, a.user_locked_x, a.locked_x>>
           = <<Nat2Big(1000), Zero, Zero, Zero>>
    /\ <<a.reserve_y_balance, a.protocol_fee_y, a.user_locked_y, a.locked_y>>
           = <<Nat2Big(1000), Zero, Zero, Zero>>
    /\ a.epoch = 0

\* quote returns and the caller keeps its arguments and its outcome.
Return_kept ==
    /\ pc = "returned"
    /\ fn = "quote"
    /\ memo = NoMemo
    /\ KeptCall(args)
    /\ memo' = [tag |-> "Some", args |-> args, out |-> out]
    /\ pc' = "idle"
    /\ fn' = "none"
    /\ args' = <<>>
    /\ out' = Idle
    /\ UNCHANGED amm_pool

\* A caller that holds a pool calls swap, deposit_lp and withdraw_lp on the
\* amounts of its pool; the calls on freely chosen arguments above are those
\* of a caller without one.  The caller's pool starts with both sides >= 1.
Open_pool ==
    /\ pc = "idle"
    /\ amm_pool = NoPool
    /\ memo = NoMemo
    /\ \E r \in PoolReserves :
        amm_pool' = [tag |-> "Reserves", x |-> r[1], y |-> r[2],
                     swaps |-> 0, last |-> NoPool]
    /\ UNCHANGED <<pc, fn, args, out, memo>>

\* The pool p after the swap a with the result r: source reserve
\* += from_amount, destination reserve -= to_amount (a pool that owes more
\* than it holds is left with nothing).  The swap is kept in last, and with
\* a swap back the swap that it reverses.
PoolAfterSwap(p, a, r) ==
    LET Paid(reserve) ==
            IF BGe(r.to_amount, reserve) THEN Zero
            ELSE BSub(reserve, r.to_amount)
    IN [tag |-> "Reserves",
        x |-> IF a.is_swap_x_to_y THEN BAdd(p.x, r.from_amount)
              ELSE Paid(p.x),
        y |-> IF a.is_swap_x_to_y THEN Paid(p.y)
              ELSE BAdd(p.y, r.from_amount),
        swaps |-> p.swaps + 1,
        last |-> [tag |-> "Swap", args |-> a, result |-> r,
                  forward |-> IF a.is_swap_back
                              THEN [args |-> p.last.args,
                                    result |-> p.last.result]
                              ELSE NoPool]]

\* swap is called on the reserves of the pool and, when it returns a result
\* that the source side can hold as a u64, the result is applied.
SwapOnPool(a) ==
    /\ args' = a
    /\ out' = swap(a.source_amount, a.pool_source_amount,
                   a.pool_destination_amount, a.trade_fee_rate,
                   a.protocol_fee_rate)
    /\ fn' = "swap"
    /\ pc' = "returned"
    /\ amm_pool' = IF out'.tag = "Some"
                      /\ BLe(BAdd(a.pool_source_amount,
                                  out'.v.from_amount), U64_MAX)
                   THEN PoolAfterSwap(amm_pool, a, out'.v)
                   ELSE amm_pool
    /\ UNCHANGED memo

\* A swap in either direction on the caller's pool.
Swap_on_pool ==
    /\ pc = "idle"
    /\ amm_pool.tag = "Reserves"
    /\ amm_pool.swaps < MaxSwaps
    /\ \E is_swap_x_to_y \in BOOLEAN, source_amount \in PoolSources,
          rates \in PoolRates :
        SwapOnPool([source_amount |-> source_amount,
                    pool_source_amount |->
                        IF is_swap_x_to_y THEN amm_pool.x ELSE amm_pool.y,
                    pool_destination_amount |->
                        IF is_swap_x_to_y THEN amm_pool.y ELSE amm_pool.x,
                    trade_fee_rate |-> rates[1],
                    protocol_fee_rate |-> rates[2],
                    is_swap_x_to_y |-> is_swap_x_to_y,
                    is_swap_back |-> FALSE])

\* The whole output of the last swap is swapped back, at the same rates.
Swap_back ==
    /\ pc = "idle"
    /\ amm_pool.tag = "Reserves"
    /\ amm_pool.swaps < MaxSwaps
    /\ amm_pool.last.tag = "Swap"
    /\ ~amm_pool.last.args.is_swap_back
    /\ amm_pool.last.result.to_amount # Zero
    /\ SwapOnPool([source_amount |-> amm_pool.last.result.to_amount,
                   pool_source_amount |->
                       IF amm_pool.last.args.is_swap_x_to_y THEN amm_pool.y
                       ELSE amm_pool.x,
                   pool_destination_amount |->
                       IF amm_pool.last.args.is_swap_x_to_y THEN amm_pool.x
                       ELSE amm_pool.y,
                   trade_fee_rate |-> amm_pool.last.args.trade_fee_rate,
                   protocol_fee_rate |->
                       amm_pool.last.args.protocol_fee_rate,
                   is_swap_x_to_y |-> ~amm_pool.last.args.is_swap_x_to_y,
                   is_swap_back |-> TRUE])

\* The pool of LP shares after a step that changes the supply and the two
\* reserves; the amounts before the step are kept.
SharesAfter(p, total_lp_supply, token_a_reserve, token_b_reserve) ==
    [tag |-> "Shares",
     total_lp_supply |-> total_lp_supply,
     token_a_reserve |-> token_a_reserve,
     token_b_reserve |-> token_b_reserve,
     steps |-> p.steps + 1,
     before |-> [total_lp_supply |-> p.total_lp_supply,
                 token_a_reserve |-> p.token_a_reserve,
                 token_b_reserve |-> p.token_b_reserve]]

\* deposit_lp is called on the supply and the reserves of the pool p and,
\* when it returns, the deposit is applied: supply += minted shares,
\* reserves += the two amounts.
DepositOnPool(p, overflow_checks, token_a_amount, token_b_amount) ==
    /\ args' = [overflow_checks |-> overflow_checks,
                token_a_amount |-> token_a_amount,
                token_b_amount |-> token_b_amount,
                total_lp_supply |-> p.total_lp_supply,
                token_a_reserve |-> p.token_a_reserve,
                token_b_reserve |-> p.token_b_reserve]
    /\ out' = deposit_lp(overflow_checks, token_a_amount, token_b_amount,
                         p.total_lp_supply, p.token_a_reserve,
                         p.token_b_reserve)
    /\ fn' = "deposit_lp"
    /\ pc' = "returned"
    /\ amm_pool' = IF out'.tag = "Val"
                   THEN SharesAfter(p, BAdd(p.total_lp_supply, out'.v),
                                    BAdd(p.token_a_reserve, token_a_amount),
                                    BAdd(p.token_b_reserve, token_b_amount))
                   ELSE amm_pool
    /\ UNCHANGED memo

\* The first deposit into an empty pool, with both amounts >= 1.
First_deposit ==
    /\ pc = "idle"
    /\ amm_pool = NoPool
    /\ memo = NoMemo
    /\ \E overflow_checks \in BOOLEAN,
          d \in { <<Nat2Big(1), Nat2Big(1)>>, <<Nat2Big(2), Nat2Big(3)>>,
                  <<Nat2Big(5), Nat2Big(5)>>,
                  <<Nat2Big(1000), Nat2Big(2000)>> } :
        DepositOnPool([total_lp_supply |-> Zero, token_a_reserve |-> Zero,
                       token_b_reserve |-> Zero, steps |-> 0],
                      overflow_checks, d[1], d[2])

\* A later deposit into the caller's pool.
Deposit_on_pool ==
    /\ pc = "idle"
    /\ amm_pool.tag = "Shares"
    /\ amm_pool.steps <= MaxLpSteps
    /\ \E overflow_checks \in BOOLEAN,
          d \in { <<Nat2Big(0), Nat2Big(1)>>, <<Nat2Big(1), Nat2Big(1)>>,
                  <<Nat2Big(2), Nat2Big(1)>>, <<Nat2Big(1), Nat2Big(3)>>,
                  <<Nat2Big(5), Nat2Big(5)>>,
                  <<Nat2Big(1000), Nat2Big(1000)>> } :
        DepositOnPool(amm_pool, overflow_checks, d[1], d[2])

\* The pool minus a payout; a pool that owes more than it holds is left
\* with nothing.
PaidOut(reserve, amount) ==
    IF BGe(amount, reserve) THEN Zero ELSE BSub(reserve, amount)

\* A withdrawal of lp_tokens <= supply (none, one, two, all but one, all)
\* from the caller's pool: withdraw_lp is called and, when it returns,
\* applied: supply -= lp_tokens, reserves -= the two amounts paid out.
Withdraw_on_pool ==
    /\ pc = "idle"
    /\ amm_pool.tag = "Shares"
    /\ amm_pool.steps <= MaxLpSteps
    /\ \E overflow_checks \in BOOLEAN,
          lp_tokens \in { Zero, One, Nat2Big(2), amm_pool.total_lp_supply,
                          PaidOut(amm_pool.total_lp_supply, One) } :
        /\ BLe(lp_tokens, amm_pool.total_lp_supply)
        /\ args' = [overflow_checks |-> overflow_checks,
                    lp_tokens |-> lp_tokens,
                    total_lp_supply |-> amm_pool.total_lp_supply,
                    token_a_reserve |-> amm_pool.token_a_reserve,
                    token_b_reserve |-> amm_pool.token_b_reserve]
        /\ out' = withdraw_lp(overflow_checks, lp_tokens,
                              amm_pool.total_lp_supply,
                              amm_pool.token_a_reserve,
                              amm_pool.token_b_reserve)
        /\ amm_pool' =
               IF out'.tag = "Val"
               THEN SharesAfter(amm_pool,
                                BSub(amm_pool.total_lp_supply, lp_tokens),
                                PaidOut(amm_pool.token_a_reserve, out'.v[1]),
                                PaidOut(amm_pool.token_b_reserve, out'.v[2]))
               ELSE amm_pool
    /\ fn' = "withdraw_lp"
    /\ pc' = "returned"
    /\ UNCHANGED memo

NextFee == Call_get_trade_fee \/ Call_get_protocol_fee \/ Return

NextSwap == Call_swap_base_input_without_fees \/ Call_swap \/ Return

NextRebalance == Call_rebalance_pool_ratio \/ Return

NextQuote == Call_quote \/ Return

NextRepeat == Call_quote \/ Return_kept \/ Return

NextLiquidity == Call_deposit_lp \/ Call_withdraw_lp \/ Return

NextLock == Call_rebalance_pool_ratio \/ Call_quote \/ Return

NextPool == Open_pool \/ Swap_on_pool \/ Swap_back \/ Return

NextShares == First_deposit \/ Deposit_on_pool \/ Withdraw_on_pool \/ Return

Next ==
    \/ Call_get_trade_fee
    \/ Call_get_protocol_fee
    \/ Call_swap_base_input_without_fees
    \/ Call_swap
    \/ Call_rebalance_pool_ratio
    \/ Call_quote
    \/ Call_deposit_lp
    \/ Call_withdraw_lp
    \/ Return_kept
    \/ Open_pool
    \/ Swap_on_pool
    \/ Swap_back
    \/ First_deposit
    \/ Deposit_on_pool
    \/ Withdraw_on_pool
    \/ Return

\* The fee calculator alone, the swap engine alone, the quote orchestrator
\* alone, and every call.
SpecFee == Init /\ [][NextFee]_vars
SpecSwap == Init /\ [][NextSwap]_vars
SpecRebalance == Init /\ [][NextRebalance]_vars
SpecQuote == Init /\ [][NextQuote]_vars
SpecRepeat == Init /\ [][NextRepeat]_vars
SpecLiquidity == Init /\ [][NextLiquidity]_vars
SpecLock == Init /\ [][NextLock]_vars
SpecPool == Init /\ [][NextPool]_vars
SpecShares == Init /\ [][NextShares]_vars
Spec == Init /\ [][Next]_vars

\* ------------------------------------------------------------------------
\* Properties
\* ------------------------------------------------------------------------

Returned(f) == pc = "returned" /\ fn = f

InU64From1(x) == BGe(x, One) /\ BLe(x, U64_MAX)

MAXP == U128From(MAX_PERCENTAGE)

\* Reserve product of the pool <<x, y>>.
Product(x, y) == BMul(x, y)

\* q = floor(n / d) and q = ceil(n / d), stated by multiplication.
IsFloor(q, n, d) == BLe(BMul(q, d), n) /\ BLt(n, BMul(BAdd(q, One), d))
IsCeil(q, n, d) ==
    BGe(BMul(q, d), n) /\ (q = Zero \/ BLt(BMul(BSub(q, One), d), n))

\* ---- C1 ----------------------------------------------------------------

C1_Domain ==
    /\ Returned("swap_base_input_without_fees")
    /\ InU64From1(args.source_amount)
    /\ InU64From1(args.swap_source_amount)
    /\ InU64From1(args.swap_destination_amount)

\* C1: for u64 inputs that are all >= 1, the fee-less swap returns an amount
\* destOut it can pay out of the destination reserve and never decreases the
\* constant product:
\* (swap_source_amount + source_amount) * (swap_destination_amount - destOut)
\*     >= swap_source_amount * swap_destination_amount.
C1_ProductNeverDecreases ==
    C1_Domain =>
        /\ out.tag = "Val"
        /\ BLe(out.v, args.swap_destination_amount)
        /\ BGe(Product(BAdd(args.swap_source_amount, args.source_amount),
                       BSub(args.swap_destination_amount, out.v)),
               Product(args.swap_source_amount, args.swap_destination_amount))

\* A swap at the top of the u64 range that pays out and whose truncation
\* makes the product grow.
C1_Witness ==
    /\ C1_Domain
    /\ args.source_amount = U64_MAX
    /\ out.tag = "Val"
    /\ out.v # Zero
    /\ BGt(Product(BAdd(args.swap_source_amount, args.source_amount),
                   BSub(args.swap_destination_amount, out.v)),
           Product(args.swap_source_amount, args.swap_destination_amount))

\* ---- C2 ----------------------------------------------------------------

\* C2: swap_base_input_without_fees(dx, x, y) returns exactly
\* floor(dx * y / (x + dx)) for every input with x + dx >= 1, and the rows of
\* the rounding table return their expected amounts.
C2_ReturnsFloor ==
    (/\ Returned("swap_base_input_without_fees")
     /\ BGe(BAdd(args.swap_source_amount, args.source_amount), One))
    =>
        /\ out.tag = "Val"
        /\ IsFloor(out.v,
                   BMul(args.source_amount, args.swap_destination_amount),
                   BAdd(args.swap_source_amount, args.source_amount))
        /\ \A r \in RoundingTable :
               <<args.source_amount, args.swap_source_amount,
                 args.swap_destination_amount>> = <<r[1], r[2], r[3]>>
               => out.v = r[4]

\* The part of C2 the code keeps: the floor, and the table, wherever the
\* product and the sum fit 128 bits.
C2_FloorWhereNoOverflow ==
    (/\ Returned("swap_base_input_without_fees")
     /\ BGe(BAdd(args.swap_source_amount, args.source_amount), One)
     /\ BLe(BMul(args.source_amount, args.swap_destination_amount), U128_MAX)
     /\ BLe(BAdd(args.swap_source_amount, args.source_amount), U128_MAX))
    =>
        /\ out.tag = "Val"
        /\ IsFloor(out.v,
                   BMul(args.source_amount, args.swap_destination_amount),
                   BAdd(args.swap_source_amount, args.source_amount))
        /\ \A r \in RoundingTable :
               <<args.source_amount, args.swap_source_amount,
                 args.swap_destination_amount>> = <<r[1], r[2], r[3]>>
               => out.v = r[4]

\* ---- C3 ----------------------------------------------------------------

SwapDomainU64 ==
    /\ Returned("swap")
    /\ InU64From1(args.source_amount)
    /\ InU64From1(args.pool_source_amount)
    /\ InU64From1(args.pool_destination_amount)
    /\ BLe(args.trade_fee_rate, MAXP)
    /\ BLe(args.protocol_fee_rate, MAXP)

\* C3: for source_amount in [1, u64::MAX], u64 reserves >= 1 and both rates
\* in [0, MAX_PERCENTAGE], swap returns a result with
\* from_amount + trade_fee = source_amount and protocol_fee <= trade_fee.
C3_FeeSplitsAmountExactly ==
    SwapDomainU64 =>
        /\ out.tag = "Some"
        /\ BAdd(out.v.from_amount, out.v.trade_fee) = args.source_amount
        /\ BLe(out.v.protocol_fee, out.v.trade_fee)

\* A swap that charges a trade fee, a part of it the protocol's.
C3_Witness ==
    /\ SwapDomainU64
    /\ out.tag = "Some"
    /\ out.v.from_amount # Zero
    /\ out.v.protocol_fee # Zero
    /\ BLt(out.v.protocol_fee, out.v.trade_fee)

\* ---- C4 ----------------------------------------------------------------

C4_Domain ==
    /\ SwapDomainU64
    /\ BGe(args.trade_fee_rate, One) /\ BLt(args.trade_fee_rate, MAXP)
    /\ BGe(args.protocol_fee_rate, One) /\ BLt(args.protocol_fee_rate, MAXP)

\* C4: for source_amount >= 1, u64 reserves >= 1 and fee rates in
\* [1, MAX_PERCENTAGE), to_amount is at most the destination reserve and the
\* pool after the swap (source + from_amount, destination - to_amount) has a
\* reserve product >= the product before it.
C4_SwapNeverDecreasesProduct ==
    C4_Domain =>
        /\ out.tag = "Some"
        /\ BLe(out.v.to_amount, args.pool_destination_amount)
        /\ BGe(Product(BAdd(args.pool_source_amount, out.v.from_amount),
                       BSub(args.pool_destination_amount, out.v.to_amount)),
               Product(args.pool_source_amount, args.pool_destination_amount))

\* A swap with a fee that pays out and makes the product grow.
C4_Witness ==
    /\ C4_Domain
    /\ out.tag = "Some"
    /\ out.v.trade_fee # Zero
    /\ out.v.to_amount # Zero
    /\ BGt(Product(BAdd(args.pool_source_amount, out.v.from_amount),
                   BSub(args.pool_destination_amount, out.v.to_amount)),
           Product(args.pool_source_amount, args.pool_destination_amount))

\* ---- C5 ----------------------------------------------------------------

TradeFeeProduct == BMul(args.amount, args.trade_fee_rate)

C5_IsCeiling ==
    /\ out.tag = "Some"
    /\ IsCeil(out.v, TradeFeeProduct, MAXP)
    /\ (out.v = Zero <=> TradeFeeProduct = Zero)

\* C5 as claimed: get_trade_fee returns the ceiling of
\* amount * trade_fee_rate / MAX_PERCENTAGE for every amount and rate whose
\* product fits the 128-bit intermediate.
C5_CeilingWheneverProductFits ==
    (Returned("get_trade_fee") /\ BLe(TradeFeeProduct, U128_MAX))
    => C5_IsCeiling

\* C5, amended: get_trade_fee returns the ceiling of
\* amount * trade_fee_rate / MAX_PERCENTAGE (the smallest f with
\* f * MAX_PERCENTAGE >= amount * trade_fee_rate, 0 only when the product is
\* 0) for every amount and rate with
\* amount * trade_fee_rate + MAX_PERCENTAGE <= u128::MAX.
C5_CeilingWheneverSumFits ==
    (Returned("get_trade_fee")
     /\ BLe(BAdd(TradeFeeProduct, MAXP), U128_MAX))
    => C5_IsCeiling

\* A fee that the ceiling rounds up: the product is no multiple of
\* MAX_PERCENTAGE.
C5_Witness ==
    /\ Returned("get_trade_fee")
    /\ BLe(BAdd(TradeFeeProduct, MAXP), U128_MAX)
    /\ out.tag = "Some"
    /\ BMod(TradeFeeProduct, MAXP) # Zero
    /\ BGt(out.v, One)

\* ---- C6 ----------------------------------------------------------------

ProtocolFeeProduct == BMul(args.amount, args.protocol_fee_rate)

\* C6: get_protocol_fee returns the floor of
\* trade_fee_amount * protocol_fee_rate / MAX_PERCENTAGE for every input
\* whose product fits 128 bits, and so at most trade_fee_amount whenever
\* protocol_fee_rate <= MAX_PERCENTAGE.
C6_ProtocolFeeIsFloor ==
    (Returned("get_protocol_fee") /\ BLe(ProtocolFeeProduct, U128_MAX))
    =>
        /\ out.tag = "Some"
        /\ IsFloor(out.v, ProtocolFeeProduct, MAXP)
        /\ (BLe(args.protocol_fee_rate, MAXP) => BLe(out.v, args.amount))

\* A protocol fee that the floor rounds down.
C6_Witness ==
    /\ Returned("get_protocol_fee")
    /\ BLe(ProtocolFeeProduct, U128_MAX)
    /\ BLe(args.protocol_fee_rate, MAXP)
    /\ out.tag = "Some"
    /\ BMod(ProtocolFeeProduct, MAXP) # Zero
    /\ out.v # Zero

\* ---- C7 ----------------------------------------------------------------

\* C7: whenever amount * rate, or the ceiling's + denominator - 1, exceeds
\* the 128-bit range, get_trade_fee and get_protocol_fee return None;
\* neither of them aborts.
C7_OverflowIsReportedAsNone ==
    /\ (Returned("get_trade_fee")
        /\ BGt(BAdd(TradeFeeProduct, BSub(MAXP, One)), U128_MAX))
       => out.tag = "None"
    /\ (Returned("get_protocol_fee") /\ BGt(ProtocolFeeProduct, U128_MAX))
       => out.tag = "None"
    /\ (Returned("get_trade_fee") \/ Returned("get_protocol_fee"))
       => out.tag # "Panic"

\* ---- C8 ----------------------------------------------------------------

\* C8: for 1 <= source_amount <= u64::MAX,
\* 1 <= pool_source_amount * pool_destination_amount <= u128::MAX and fee
\* rates in [0, MAX_PERCENTAGE], swap returns a SwapResult: nothing in it
\* overflows or aborts.
C8_SwapWorksOnDocumentedDomain ==
    (/\ Returned("swap")
     /\ InU64From1(args.source_amount)
     /\ BGe(Product(args.pool_source_amount, args.pool_destination_amount),
            One)
     /\ BLe(Product(args.pool_source_amount, args.pool_destination_amount),
            U128_MAX)
     /\ BLe(args.trade_fee_rate, MAXP)
     /\ BLe(args.protocol_fee_rate, MAXP))
    => out.tag = "Some"

\* ---- C9 ----------------------------------------------------------------

\* The books of one side do not add up: the protocol fee with the user-locked
\* amount exceeds the reserve balance, or the pool-locked amount exceeds what
\* is left of it.
SideInconsistent(reserve_balance, protocol_fee, user_locked, locked) ==
    \/ BGt(BAdd(protocol_fee, user_locked), reserve_balance)
    \/ BGt(BAdd(BAdd(protocol_fee, user_locked), locked), reserve_balance)

QuoteBooksInconsistent ==
    \/ SideInconsistent(args.reserve_x_balance, args.protocol_fee_x,
                        args.user_locked_x, args.locked_x)
    \/ SideInconsistent(args.reserve_y_balance, args.protocol_fee_y,
                        args.user_locked_y, args.locked_y)

\* C9: when the books of either side are inconsistent, quote returns the
\* MathUnderflow error to its caller: it neither aborts nor goes on with an
\* available amount clamped to zero.
C9_InconsistentBooksReturnMathUnderflow ==
    (Returned("quote") /\ QuoteBooksInconsistent)
    => out = Err("MathUnderflow")

\* ---- C10 ---------------------------------------------------------------

\* The transfer fee of the source mint on the nominal input.
C10_InputTransferFee ==
    get_transfer_fee(IF args.is_swap_x_to_y
                     THEN args.token_x_transfer_fee_config
                     ELSE args.token_y_transfer_fee_config,
                     args.amount_in, args.epoch)

\* amount_in minus that fee, or zero when the fee is the larger one.
C10_NetInput ==
    IF BGe(C10_InputTransferFee.v, args.amount_in) THEN Zero
    ELSE BSub(args.amount_in, C10_InputTransferFee.v)

C10_Domain ==
    /\ Returned("quote")
    /\ ~QuoteBooksInconsistent
    /\ C10_InputTransferFee.tag = "Ok"

\* C10: in either direction, with consistent books and a transfer fee of the
\* source mint that can be computed, a net input (amount_in minus the fee,
\* saturating at zero) of zero makes quote fail with InputAmountTooSmall,
\* whatever the pool and the fee rates are; and a successful quote reports
\* the net input as from_amount_after_transfer_fees, which is >= 1.
C10_NetInputSaturatesAndMustBePositive ==
    C10_Domain =>
        /\ (C10_NetInput = Zero => out = Err("InputAmountTooSmall"))
        /\ (out.tag = "Ok" =>
               /\ out.v.from_amount_after_transfer_fees = C10_NetInput
               /\ BGe(C10_NetInput, One))

\* A transfer fee larger than the nominal input: the subtraction saturates
\* and the quote is refused.
C10_Witness ==
    /\ C10_Domain
    /\ BGt(C10_InputTransferFee.v, args.amount_in)
    /\ out = Err("InputAmountTooSmall")

\* ---- C11 ---------------------------------------------------------------

\* What quote prices against, when the books are consistent: the reserve
\* less the protocol fee and the user-locked amount, and that less the
\* pool-locked amount.
TotalX ==
    BSub(BSub(args.reserve_x_balance, args.protocol_fee_x), args.user_locked_x)

TotalY ==
    BSub(BSub(args.reserve_y_balance, args.protocol_fee_y), args.user_locked_y)

AvailableX == BSub(TotalX, args.locked_x)

AvailableY == BSub(TotalY, args.locked_y)

TotalSource == IF args.is_swap_x_to_y THEN TotalX ELSE TotalY

TotalDestination == IF args.is_swap_x_to_y THEN TotalY ELSE TotalX

AvailableSource == IF args.is_swap_x_to_y THEN AvailableX ELSE AvailableY

AvailableDestination == IF args.is_swap_x_to_y THEN AvailableY ELSE AvailableX

\* The schedule quote charges on the output: the one of the output mint.
OutputTransferFeeConfig ==
    IF (IF args.is_swap_x_to_y THEN args.token_y_mint ELSE args.token_x_mint)
       = args.token_x_mint
    THEN args.token_x_transfer_fee_config
    ELSE args.token_y_transfer_fee_config

\* The steps of quote before the output transfer fee, on the net input: what
\* they yield when the output mint charges nothing.
GrossLeg ==
    QuoteSwapLeg(C10_NetInput, args.is_swap_x_to_y, args.amm_config,
                 NoTransferFee, AvailableSource, AvailableDestination,
                 TotalSource, TotalDestination, args.epoch)

C11_Domain == C10_Domain /\ C10_NetInput # Zero

\* C11: when the steps before it pass and the gross output less the output
\* transfer fee is zero, quote fails with OutputIsZero; a successful quote
\* reports to_amount_after_transfer_fees = to_amount - output transfer fee,
\* which is >= 1.
C11_ZeroNetOutputIsRefused ==
    C11_Domain =>
        LET Charged(gross, fee) ==
                /\ (fee.tag = "Ok" /\ fee.v = gross.to_amount)
                       => out = Err("OutputIsZero")
                /\ out.tag = "Ok" =>
                       /\ fee.tag = "Ok"
                       /\ BLe(fee.v, gross.to_amount)
                       /\ out.v.to_amount = gross.to_amount
                       /\ out.v.to_amount_after_transfer_fees
                              = BSub(gross.to_amount, fee.v)
                       /\ BGe(out.v.to_amount_after_transfer_fees, One)
            Passed(gross) ==
                /\ gross = Err("OutputIsZero") => out = Err("OutputIsZero")
                /\ out.tag = "Ok" => gross.tag = "Ok"
                /\ gross.tag = "Ok" =>
                       Charged(gross.v,
                               get_transfer_fee(OutputTransferFeeConfig,
                                                gross.v.to_amount,
                                                args.epoch))
        IN Passed(GrossLeg)

\* A positive gross output that the output transfer fee consumes entirely.
C11_Witness ==
    /\ C11_Domain
    /\ out = Err("OutputIsZero")
    /\ LET Consumed(gross) ==
               /\ gross.tag = "Ok"
               /\ BGe(gross.v.to_amount, One)
               /\ get_transfer_fee(OutputTransferFeeConfig,
                                   gross.v.to_amount, args.epoch)
                      = Ok(gross.v.to_amount)
       IN Consumed(GrossLeg)

\* ---- C12 ---------------------------------------------------------------

\* The error kinds of errors.rs that quote is to fail with.
QuoteErrorKinds ==
    { "MathOverflow", "MathUnderflow", "InputAmountTooSmall", "TradeTooBig",
      "InsufficientPoolTokenXBalance", "InsufficientPoolTokenYBalance",
      "OutputIsZero" }

\* C12: with fee rates in [0, MAX_PERCENTAGE] and any reserves, locks and
\* transfer fees, quote returns a QuoteOutput or one of the error kinds of
\* QuoteErrorKinds; it never aborts.
C12_FailuresAreErrorKinds ==
    (/\ Returned("quote")
     /\ BLe(args.amm_config.trade_fee_rate, MAXP)
     /\ BLe(args.amm_config.protocol_fee_rate, MAXP))
    => \/ out.tag = "Ok"
       \/ out.tag = "Err" /\ out.v \in QuoteErrorKinds

\* ---- C13 ---------------------------------------------------------------

\* The swap of quote, on the net input against the available amounts, and
\* the rebalance of quote on what that swap returns.
SwapOfNetInput ==
    swap(C10_NetInput, AvailableSource, AvailableDestination,
         args.amm_config.trade_fee_rate, args.amm_config.protocol_fee_rate)

RebalanceOfSwap(result_amounts) ==
    rebalance_pool_ratio(result_amounts.to_amount,
                         AvailableSource, AvailableDestination,
                         TotalSource, TotalDestination,
                         args.amm_config.ratio_change_tolerance_rate)

C13_Domain == C11_Domain /\ SwapOfNetInput.tag = "Some"

DestinationTransferFeeConfig ==
    IF args.is_swap_x_to_y THEN args.token_y_transfer_fee_config
    ELSE args.token_x_transfer_fee_config

\* The QuoteOutput composed of the swap on the net input, the lock of the
\* rebalance on its output, and the output less the transfer fee that the
\* given schedule charges on it.
ComposedOutput(result_amounts, rebalance_result, output_transfer_fee) ==
    QuoteOutput(result_amounts.from_amount, result_amounts.to_amount,
                BSub(result_amounts.to_amount, output_transfer_fee.v),
                C10_NetInput, result_amounts.trade_fee,
                result_amounts.protocol_fee, rebalance_result.from_to_lock)

ComposedWith(output_transfer_fee_config) ==
    LET Composed(result_amounts, rebalance_result) ==
            /\ rebalance_result.tag = "Some"
            /\ out.v = ComposedOutput(
                           result_amounts, rebalance_result.v,
                           get_transfer_fee(output_transfer_fee_config,
                                            result_amounts.to_amount,
                                            args.epoch))
    IN /\ C13_Domain
       /\ Composed(SwapOfNetInput.v, RebalanceOfSwap(SwapOfNetInput.v))

\* C14: whatever the two mints are, a successful quote is the composition
\* of the totals and available amounts of each side, the net input, swap,
\* the lock of rebalance_pool_ratio and the output less the transfer fee of
\* the destination side's schedule.
C14_QuoteIsReferenceComposition ==
    (Returned("quote") /\ out.tag = "Ok")
    => ComposedWith(DestinationTransferFeeConfig)

\* A successful quote is that composition with the transfer fee of the
\* schedule picked by comparing the output mint with token_x_mint.
C14_CompositionWithOutputMintSchedule ==
    (Returned("quote") /\ out.tag = "Ok")
    => ComposedWith(OutputTransferFeeConfig)

\* ---- C15 ---------------------------------------------------------------

RebalanceDegenerate ==
    \/ BGe(args.to_amount_swapped, args.current_destination_amount)
    \/ args.current_source_amount = Zero
    \/ args.current_destination_amount = Zero

\* C16: on a degenerate input rebalance_pool_ratio returns from_to_lock = 0
\* and is_rate_tolerance_exceeded = true, whatever the tolerance rate is.
C16_DegenerateInputsExceedTolerance ==
    (Returned("rebalance_pool_ratio") /\ RebalanceDegenerate)
    => out = Some(RebalanceResult(Zero, TRUE))

\* A swap of the whole destination of a pool with both amounts positive, at
\* a tolerance of 100%.
C16_Witness ==
    /\ Returned("rebalance_pool_ratio")
    /\ args.to_amount_swapped = args.current_destination_amount
    /\ args.current_source_amount # Zero
    /\ args.current_destination_amount # Zero
    /\ args.ratio_change_tolerance_rate = MAXP
    /\ out = Some(RebalanceResult(Zero, TRUE))

\* ---- C17 ---------------------------------------------------------------

\* |a - b| of two amounts.
AbsDiff(a, b) == IF BGe(a, b) THEN BSub(a, b) ELSE BSub(b, a)

\* With finalRatio = (current_source - from_to_lock) / remaining and
\* targetRatio = original_source / original_destination, the comparison
\*   |finalRatio - targetRatio| / targetRatio * 100
\*       > ratio_change_tolerance_rate / MAX_PERCENTAGE * 100
\* in exact arithmetic, cross-multiplied:
\*   |(current_source - from_to_lock) * original_destination
\*    - original_source * remaining| * MAX_PERCENTAGE
\*       > ratio_change_tolerance_rate * original_source * remaining.
ChangeExceedsTolerance(from_to_lock) ==
    LET Exceeds(final_cross, target_cross) ==
            BGt(BMul(AbsDiff(final_cross, target_cross), MAXP),
                BMul(args.ratio_change_tolerance_rate, target_cross))
    IN Exceeds(BMul(BSub(args.current_source_amount, from_to_lock),
                    args.original_destination_amount),
               BMul(args.original_source_amount,
                    BSub(args.current_destination_amount,
                         args.to_amount_swapped)))

C17_Domain ==
    /\ Returned("rebalance_pool_ratio")
    /\ ~RebalanceDegenerate
    /\ args.original_source_amount # Zero
    /\ args.original_destination_amount # Zero
    /\ out.tag = "Some"

\* C17: on a non-degenerate input is_rate_tolerance_exceeded is true
\* exactly when the change of the ratio, relative to the target ratio, is
\* strictly greater than ratio_change_tolerance_rate / MAX_PERCENTAGE; a
\* change equal to the tolerance is within it.
C17_ExceededIffChangeAboveTolerance ==
    C17_Domain =>
        (out.v.is_rate_tolerance_exceeded
         <=> ChangeExceedsTolerance(out.v.from_to_lock))

\* The rows of the test that the guard does not catch give the flag that the
\* test expects.
C17_TestRowsAsExpected ==
    \A r \in RebalanceTable :
        (/\ C17_Domain
         /\ <<args.to_amount_swapped, args.current_source_amount,
              args.current_destination_amount, args.original_source_amount,
              args.original_destination_amount,
              args.ratio_change_tolerance_rate>>
                = <<r[1], r[2], r[3], r[4], r[5], r[7]>>)
        => out.v.is_rate_tolerance_exceeded = r[6]

\* ---- C18 ---------------------------------------------------------------

\* r is the floor of the square root of n: r * r <= n < (r + 1) * (r + 1).
IsFloorSqrt(r, n) ==
    BLe(BMul(r, r), n) /\ BLt(n, BMul(BAdd(r, One), BAdd(r, One)))

FirstDeposit == Returned("deposit_lp") /\ args.total_lp_supply = Zero

\* C18: on a first deposit deposit_lp returns the floor of the square root
\* of token_a_amount * token_b_amount, for every pair of u64 amounts and
\* whatever the reserves are.
C18_FirstDepositIsFloorSqrt ==
    FirstDeposit =>
        /\ out.tag = "Val"
        /\ IsFloorSqrt(out.v, BMul(args.token_a_amount, args.token_b_amount))

\* The first deposit of the test: deposit_lp(1000, 2000, 0, 0, 0) == 1414.
C18_TestDepositInitial ==
    (/\ FirstDeposit
     /\ args.token_a_amount = Nat2Big(1000)
     /\ args.token_b_amount = Nat2Big(2000))
    => out = Val(Nat2Big(1414))

\* ---- C19 ---------------------------------------------------------------

\* floor(amount * total_lp_supply / reserve), the product in full width.
ShareOf(amount, reserve) ==
    BDiv(BMul(amount, args.total_lp_supply), reserve)

LaterDeposit ==
    /\ Returned("deposit_lp")
    /\ args.total_lp_supply # Zero
    /\ args.token_a_reserve # Zero
    /\ args.token_b_reserve # Zero

\* C19: on a later deposit with both reserves positive deposit_lp returns
\* the smaller of floor(token_a_amount * total_lp_supply / token_a_reserve)
\* and floor(token_b_amount * total_lp_supply / token_b_reserve) whenever
\* that fits u64, also when a product exceeds the 64-bit range.
C19_LaterDepositIsMinOfShares ==
    LET Least(token_a_lp, token_b_lp) ==
            BLe(BMin(token_a_lp, token_b_lp), U64_MAX)
            => out = Val(BMin(token_a_lp, token_b_lp))
    IN LaterDeposit =>
           Least(ShareOf(args.token_a_amount, args.token_a_reserve),
                 ShareOf(args.token_b_amount, args.token_b_reserve))

\* The same where both products fit 64 bits.
C19_MinOfSharesWhereProductsFit ==
    LET Least(token_a_lp, token_b_lp) ==
            out = Val(BMin(token_a_lp, token_b_lp))
    IN (/\ LaterDeposit
        /\ BLe(BMul(args.token_a_amount, args.total_lp_supply), U64_MAX)
        /\ BLe(BMul(args.token_b_amount, args.total_lp_supply), U64_MAX))
       => Least(ShareOf(args.token_a_amount, args.token_a_reserve),
                ShareOf(args.token_b_amount, args.token_b_reserve))

\* ---- C20 ---------------------------------------------------------------

\* floor(lp_tokens * reserve / total_lp_supply), the product in full width.
PayoutOf(reserve) == BDiv(BMul(args.lp_tokens, reserve), args.total_lp_supply)

\* C20: withdraw_lp returns (0, 0) when total_lp_supply is 0 and otherwise
\* (floor(lp_tokens * token_a_reserve / total_lp_supply),
\*  floor(lp_tokens * token_b_reserve / total_lp_supply)) for every u64
\* input, also when a product exceeds the 64-bit range.
C20_WithdrawIsProportional ==
    Returned("withdraw_lp") =>
        IF args.total_lp_supply = Zero THEN out = Val(<<Zero, Zero>>)
        ELSE out = Val(<<PayoutOf(args.token_a_reserve),
                         PayoutOf(args.token_b_reserve)>>)

\* The same where both products fit 64 bits.
C20_ProportionalWhereProductsFit ==
    (/\ Returned("withdraw_lp")
     /\ BLe(BMul(args.lp_tokens, args.token_a_reserve), U64_MAX)
     /\ BLe(BMul(args.lp_tokens, args.token_b_reserve), U64_MAX))
    => IF args.total_lp_supply = Zero THEN out = Val(<<Zero, Zero>>)
       ELSE out = Val(<<PayoutOf(args.token_a_reserve),
                        PayoutOf(args.token_b_reserve)>>)

\* ---- C21 ---------------------------------------------------------------

\* current_source >= 1, to_amount_swapped < current_destination and
\* original_destination >= 1.
RebalanceNonDegenerate ==
    /\ Returned("rebalance_pool_ratio")
    /\ ~RebalanceDegenerate
    /\ args.original_destination_amount # Zero

RemainingDestination ==
    BSub(args.current_destination_amount, args.to_amount_swapped)

\* The ratio error of the lock c,
\*   |(current_source - c) / remaining_destination
\*    - original_source / original_destination|,
\* in exact arithmetic, times remaining_destination * original_destination
\* (the same positive factor for every c):
\*   |(current_source - c) * original_destination
\*    - original_source * remaining_destination|.
LockError(c) ==
    AbsDiff(BMul(BSub(args.current_source_amount, c),
                 args.original_destination_amount),
            BMul(args.original_source_amount, RemainingDestination))

\* The lock that leaves new_source of the source, for new_source brought
\* into 1 .. current_source.
LockLeaving(new_source) ==
    IF BLt(new_source, One) THEN BSub(args.current_source_amount, One)
    ELSE IF BGt(new_source, args.current_source_amount) THEN Zero
    ELSE BSub(args.current_source_amount, new_source)

\* The real solution leaves original_source * remaining_destination
\* / original_destination of the source.  LockError falls up to it and rises
\* after it, so over the locks 0 .. current_source - 1 it is smallest at the
\* lock that leaves the floor of the real solution or at the lock that
\* leaves one more.
LockBelow ==
    LockLeaving(BAdd(BDiv(BMul(args.original_source_amount,
                               RemainingDestination),
                          args.original_destination_amount), One))
LockAbove ==
    LockLeaving(BDiv(BMul(args.original_source_amount,
                          RemainingDestination),
                     args.original_destination_amount))

SmallestLockError == BMin(LockError(LockBelow), LockError(LockAbove))

\* The locks 0 .. current_source - 1 of a small pool, one by one.
SmallLocks ==
    { c \in Small(MaxRebalance) : BLt(c, args.current_source_amount) }

\* On the small pools SmallestLockError is the smallest LockError of all
\* locks that leave a non-zero ratio.
C21_SmallestErrorIsOverAllLocks ==
    (RebalanceNonDegenerate
     /\ BLe(args.current_source_amount, Nat2Big(MaxRebalance)))
    => /\ \A c \in SmallLocks : BLe(SmallestLockError, LockError(c))
       /\ \E c \in SmallLocks : SmallestLockError = LockError(c)

\* C21: on a non-degenerate input no lock c with 0 <= c < current_source
\* has a strictly smaller ratio error, in exact arithmetic, than the
\* from_to_lock that rebalance_pool_ratio returns.
C21_LockHasSmallestErrorOfAllLocks ==
    (RebalanceNonDegenerate /\ out.tag = "Some")
    => LockError(out.v.from_to_lock) = SmallestLockError

\* Where every amount is below 2^53 (exact as an f64) the returned lock has
\* the smallest error.
C21_SmallestErrorOnExactAmounts ==
    (/\ RebalanceNonDegenerate
     /\ out.tag = "Some"
     /\ BLt(args.current_source_amount, TWO_POW_53)
     /\ BLt(args.current_destination_amount, TWO_POW_53))
    => LockError(out.v.from_to_lock) = SmallestLockError

\* ---- C22 ---------------------------------------------------------------

\* The real solution lies exactly halfway between two locks that both leave
\* a non-zero ratio: LockBelow and LockAbove = LockBelow + 1 have the same
\* ratio error in exact arithmetic.
LockTie ==
    /\ RebalanceNonDegenerate
    /\ LockAbove = BAdd(LockBelow, One)
    /\ LockError(LockBelow) = LockError(LockAbove)

\* ratio_diff of the candidate c as the loop computes it.
RatioDiff(c) ==
    F64Abs(F64Sub(F64Div(F64FromU64(BSub(args.current_source_amount, c)),
                         F64FromU64(RemainingDestination)),
                  F64Div(F64FromU64(args.original_source_amount),
                         F64FromU64(args.original_destination_amount))))

\* C22: when two candidates of the window have exactly equal ratio error
\* (the real solution is halfway between two integers), the lower candidate
\* is returned as from_to_lock.
C22_TieKeepsLowerCandidate ==
    (LockTie /\ out.tag = "Some") => out.v.from_to_lock = LockBelow

\* When the two candidates have equal ratio_diff as computed, the lower one
\* is returned.
C22_EqualComputedErrorKeepsLower ==
    (LockTie /\ out.tag = "Some"
     /\ ~F64Ne(RatioDiff(LockBelow), RatioDiff(LockAbove)))
    => out.v.from_to_lock = LockBelow

\* A tie with equal computed errors: 2 : 1 or 3 : 3 left against 3 : 2 or
\* 1 : 2.
C22_EqualComputedErrorHappens ==
    /\ LockTie
    /\ ~F64Ne(RatioDiff(LockBelow), RatioDiff(LockAbove))
    /\ out = Some(RebalanceResult(LockBelow, out.v.is_rate_tolerance_exceeded))

\* ---- C23 ---------------------------------------------------------------

\* C23: a non-degenerate call of rebalance_pool_ratio (current_source >= 1,
\* to_amount_swapped < current_destination, original_destination >= 1)
\* returns from_to_lock < current_source_amount; quote never returns
\* InsufficientPoolTokenXBalance or InsufficientPoolTokenYBalance, and a
\* QuoteOutput has from_to_lock < the available source reserve in both
\* directions.
C23_LockIsBelowSource ==
    /\ (RebalanceNonDegenerate /\ out.tag = "Some")
       => BLt(out.v.from_to_lock, args.current_source_amount)
    /\ Returned("quote")
       => /\ out # Err("InsufficientPoolTokenXBalance")
          /\ out # Err("InsufficientPoolTokenYBalance")
          /\ out.tag = "Ok"
             => BLt(out.v.from_to_lock, AvailableSource)

\* The target ratio is zero, so the real solution locks all of the source:
\* the candidate current_source_amount is in the window, and the lock
\* returned is one less.
C23_Witness ==
    /\ RebalanceNonDegenerate
    /\ args.original_source_amount = Zero
    /\ out.tag = "Some"
    /\ BAdd(out.v.from_to_lock, One) = args.current_source_amount

\* A QuoteOutput with a lock: some of the source is set aside, not all.
C23_QuoteLocksPartOfSource ==
    /\ Returned("quote")
    /\ out.tag = "Ok"
    /\ out.v.from_to_lock # Zero
    /\ BLt(out.v.from_to_lock, AvailableSource)

\* ---- C24 ---------------------------------------------------------------

\* The side of the pool that the swap in args paid from.
DestinationSide == IF args.is_swap_x_to_y THEN amm_pool.y ELSE amm_pool.x

\* C24: a pool that starts with x >= 1 and y >= 1 has both reserves >= 1
\* after any sequence of swaps in either direction (source reserve
\* += from_amount, destination reserve -= to_amount), and the to_amount of
\* each swap is strictly less than the destination reserve it is paid from.
C24_SwapsNeverDrainThePool ==
    amm_pool.tag = "Reserves"
    => /\ BGe(amm_pool.x, One)
       /\ BGe(amm_pool.y, One)
       /\ Returned("swap")
          => /\ out.tag = "Some"
             /\ BLt(out.v.to_amount, args.pool_destination_amount)

\* After two swaps or more, a swap has paid out and left one unit on the
\* side it was paid from.
C24_Witness ==
    /\ amm_pool.tag = "Reserves"
    /\ Returned("swap")
    /\ amm_pool.swaps >= 2
    /\ out.tag = "Some"
    /\ out.v.to_amount # Zero
    /\ DestinationSide = One

\* ---- C25 ---------------------------------------------------------------

\* swap has returned r2 for a swap back; ForwardSwap is the swap r1 that it
\* reverses (the last swap applied, or the one before it when the swap back
\* has been applied too).
SwappedBack ==
    /\ amm_pool.tag = "Reserves"
    /\ Returned("swap")
    /\ args.is_swap_back

ForwardSwap ==
    IF amm_pool.last.args.is_swap_back THEN amm_pool.last.forward
    ELSE amm_pool.last

\* C25: when r1 = swap(s, x, y, ..) is applied to the pool and its whole
\* output is swapped back, r2 = swap(r1.to_amount, y - r1.to_amount,
\* x + r1.from_amount, ..), then r2.to_amount <= r1.from_amount <= s.
C25_RoundTripIsNeverProfitable ==
    SwappedBack
    => /\ out.tag = "Some"
       /\ args.source_amount = ForwardSwap.result.to_amount
       /\ args.pool_source_amount
              = BSub(ForwardSwap.args.pool_destination_amount,
                     ForwardSwap.result.to_amount)
       /\ args.pool_destination_amount
              = BAdd(ForwardSwap.args.pool_source_amount,
                     ForwardSwap.result.from_amount)
       /\ BLe(out.v.to_amount, ForwardSwap.result.from_amount)
       /\ BLe(ForwardSwap.result.from_amount, ForwardSwap.args.source_amount)

\* A round trip without fees that returns all that was put in: 1000 into
\* 1000 : 1000 and the 500 back.
C25_Witness ==
    /\ SwappedBack
    /\ out.tag = "Some"
    /\ ForwardSwap.args.trade_fee_rate = Zero
    /\ out.v.to_amount = ForwardSwap.args.source_amount
    /\ out.v.to_amount = Nat2Big(1000)

\* A round trip with fees that returns less than was put in.
C25_RoundTripWithFeesLoses ==
    /\ SwappedBack
    /\ out.tag = "Some"
    /\ ForwardSwap.args.trade_fee_rate = Nat2Big(2500)
    /\ out.v.to_amount # Zero
    /\ BLt(out.v.to_amount, ForwardSwap.result.from_amount)
    /\ BLt(ForwardSwap.result.from_amount, ForwardSwap.args.source_amount)

\* ---- C26 ---------------------------------------------------------------

\* reserve / supply after the step >= reserve / supply before it, for
\* supplies > 0, cross-multiplied.
BackingNotLess(reserve_after, supply_after, reserve_before, supply_before) ==
    BGe(BMul(reserve_after, supply_before),
        BMul(reserve_before, supply_after))

\* C26: from a first deposit with both amounts >= 1, across every
\* deposit_lp step and every withdraw_lp step with lp_tokens <= supply that
\* leaves a supply > 0, the reserve per share does not decrease on either
\* side; a withdrawal pays out at most the reserve of each side.  No product
\* overflows on the amounts of the pools here.
C26_BackingPerShareNeverDecreases ==
    amm_pool.tag = "Shares"
    => /\ (amm_pool.before.total_lp_supply # Zero
           /\ amm_pool.total_lp_supply # Zero)
          => /\ BackingNotLess(amm_pool.token_a_reserve,
                               amm_pool.total_lp_supply,
                               amm_pool.before.token_a_reserve,
                               amm_pool.before.total_lp_supply)
             /\ BackingNotLess(amm_pool.token_b_reserve,
                               amm_pool.total_lp_supply,
                               amm_pool.before.token_b_reserve,
                               amm_pool.before.total_lp_supply)
       /\ pc = "returned" => out.tag = "Val"
       /\ Returned("withdraw_lp")
          => /\ BLe(out.v[1], args.token_a_reserve)
             /\ BLe(out.v[2], args.token_b_reserve)

\* A deposit that is not in the ratio of the pool has minted shares for the
\* smaller side only, and the backing of a share has grown on the other.
C26_Witness ==
    /\ amm_pool.tag = "Shares"
    /\ Returned("deposit_lp")
    /\ amm_pool.steps >= 2
    /\ out.tag = "Val"
    /\ out.v # Zero
    /\ ~BackingNotLess(amm_pool.before.token_a_reserve,
                       amm_pool.before.total_lp_supply,
                       amm_pool.token_a_reserve, amm_pool.total_lp_supply)

\* A withdrawal of a part of the supply that pays out on both sides and
\* rounds the payout down, so that the backing of a share grows.
C26_WithdrawalRoundsDown ==
    /\ amm_pool.tag = "Shares"
    /\ Returned("withdraw_lp")
    /\ out.tag = "Val"
    /\ out.v[1] # Zero
    /\ out.v[2] # Zero
    /\ amm_pool.total_lp_supply # Zero
    /\ ~BackingNotLess(amm_pool.before.token_b_reserve,
                       amm_pool.before.total_lp_supply,
                       amm_pool.token_b_reserve, amm_pool.total_lp_supply)

\* ---- C27 ---------------------------------------------------------------

\* quote on the arguments a.
QuoteOf(a) ==
    quote(a.amount_in, a.is_swap_x_to_y, a.amm_config,
          a.token_x_transfer_fee_config, a.token_y_transfer_fee_config,
          a.token_x_mint, a.token_y_mint, a.protocol_fee_x, a.protocol_fee_y,
          a.user_locked_x, a.user_locked_y, a.locked_x, a.locked_y,
          a.reserve_x_balance, a.reserve_y_balance, a.epoch)

\* The call in args in the other direction, with the values of the two
\* sides exchanged.
MirroredCall ==
    [amount_in |-> args.amount_in,
     is_swap_x_to_y |-> ~args.is_swap_x_to_y,
     amm_config |-> args.amm_config,
     token_x_transfer_fee_config |-> args.token_y_transfer_fee_config,
     token_y_transfer_fee_config |-> args.token_x_transfer_fee_config,
     token_x_mint |-> args.token_y_mint,
     token_y_mint |-> args.token_x_mint,
     protocol_fee_x |-> args.protocol_fee_y,
     protocol_fee_y |-> args.protocol_fee_x,
     user_locked_x |-> args.user_locked_y,
     user_locked_y |-> args.user_locked_x,
     locked_x |-> args.locked_y,
     locked_y |-> args.locked_x,
     reserve_x_balance |-> args.reserve_y_balance,
     reserve_y_balance |-> args.reserve_x_balance,
     epoch |-> args.epoch]

\* The outcome o with the insufficient-balance kind of the other side.
OtherSide(o) ==
    IF o = Err("InsufficientPoolTokenXBalance")
    THEN Err("InsufficientPoolTokenYBalance")
    ELSE IF o = Err("InsufficientPoolTokenYBalance")
    THEN Err("InsufficientPoolTokenXBalance")
    ELSE o

\* C27: for distinct mints, quote in one direction on sides (X = A, Y = B)
\* and quote in the other direction on sides (X = B, Y = A) give the same
\* outcome: the same QuoteOutput field by field, or the same error kind up
\* to the X/Y naming of the insufficient-balance kind.
C27_QuoteIsSymmetricInDirection ==
    (Returned("quote") /\ args.token_x_mint # args.token_y_mint)
    => QuoteOf(MirroredCall) = OtherSide(out)

\* A QuoteOutput on a pool whose two sides differ in books and in transfer
\* fee schedule, with a transfer fee charged on the output.
C27_Witness ==
    /\ Returned("quote")
    /\ args.token_x_mint # args.token_y_mint
    /\ args.token_x_transfer_fee_config # args.token_y_transfer_fee_config
    /\ <<args.reserve_x_balance, args.protocol_fee_x, args.user_locked_x,
         args.locked_x>>
           # <<args.reserve_y_balance, args.protocol_fee_y,
               args.user_locked_y, args.locked_y>>
    /\ out.tag = "Ok"
    /\ BLt(out.v.to_amount_after_transfer_fees, out.v.to_amount)
    /\ QuoteOf(MirroredCall) = out

\* Errors are mirrored as well: a trade refused as too big in one direction
\* is refused in the other.
C27_RefusalIsMirrored ==
    /\ Returned("quote")
    /\ args.token_x_mint # args.token_y_mint
    /\ ~args.is_swap_x_to_y
    /\ <<args.reserve_x_balance, args.protocol_fee_x, args.user_locked_x,
         args.locked_x>>
           # <<args.reserve_y_balance, args.protocol_fee_y,
               args.user_locked_y, args.locked_y>>
    /\ out = Err("TradeTooBig")
    /\ QuoteOf(MirroredCall) = out
====
